---- MODULE Spec2Model ----
(***************************************************************************)
(* Conversation-history compaction of                                      *)
(* src/extension/prompts/node/agent/summarizedConversationHistory.tsx:     *)
(* SummarizedConversationHistoryPropsBuilder.getProps (selection),         *)
(* SummarizedConversationHistory.summarizeHistory (one attempt),           *)
(* addSummaryToHistory (installation) and sendSummarizationTelemetry.      *)
(*                                                                         *)
(* Round objects are shared by reference between the caller's prompt       *)
(* context and the copy getProps returns, so rounds live in a heap keyed   *)
(* by address; turns and the pending-round list hold addresses.            *)
(***************************************************************************)
EXTENDS Integers, Sequences, FiniteSets, TLC

\* ------------------------------------------------------------------ bounds
MaxTurns == 2
MaxRounds == 2
MaxPending == 3
MaxSummarized == 2
MaxSameId == 2       \* rounds sharing one id, where lookup order is examined
MaxRequests == 3     \* calls of SessionManager.handleRequest
MaxLimit == 2        \* largest maxConcurrentSessions passed in the options
MaxToolRounds == 2   \* rounds of a conversation that made tool calls
MaxGrown == 4        \* rounds a growing conversation comes to hold

\* ------------------------------------------------------------ value domains
\* `round.summary` is `string | undefined`; Undefined stands for undefined.
Undefined == "<undefined>"

\* JavaScript truthiness of `round.summary`: undefined and '' are falsy.
Truthy(s) == s # Undefined /\ s # ""

\* Summary texts the completion endpoint can return (summary.value).
Texts == {"", "S1"}

\* sizing.countTokens(text): the token-sizing collaborator.
countTokens(text) == IF text = "" THEN 0 ELSE 1

\* sizing.tokenBudget: for every text a budget it exactly fills, so that each
\* text is below, at and above some budget.
TokenBudgets == {countTokens(text) : text \in Texts}

\* ChatFetchResponseType members used by summarizeHistory, by value.
Success == "success"
Failed == "failed"
Canceled == "canceled"
Length == "length"
ResponseTypes == {Success, Failed, Canceled, Length}

\* Errors the collaborators raise.
BudgetExceededError == "BudgetExceededError"
RenderErrors == {BudgetExceededError, "RenderError"}
CancellationError == "CancellationError"
ProgressError == "ProgressError"

\* this.props.endpoint.model, promptContext.conversation?.sessionId
DefaultMaxConcurrentSessions == 10
Conversations == {"conversation-1", "conversation-2"}
Results == {"result-1"}
ExecuteErrors == {"HandlerError"}
LimitError == "Maximum concurrent sessions limit reached"
EndpointModel == "model-1"
ConversationSessionId == "conversation-1"
RequestId == "request-1"
Reason == "reason-1"

\* Behaviours of `progress?.report(...)`: no reporter, returns, raises.
ProgressBehaviours == {"absent", "ok", "raises"}

VARIABLES
    heap,            \* address -> round object [id, summary, toolCalls]
    history,         \* promptContext.history: Seq of [rounds: Seq(address)]
    toolCallRounds,  \* promptContext.toolCallRounds: Seq(address)
    isContinuation,  \* promptContext.isContinuation
    tokenBudget,     \* sizing.tokenBudget
    pc,              \* position of summarizeHistory
    propsInfo,       \* what getProps returned
    cancelled,       \* the cancellation token has fired
    summary,         \* the ChatResponse the request settled with
    telemetry,       \* events sent to sendMSFTTelemetryEvent, in order
    log,             \* side effects of the attempt, in order
    result,          \* how summarizeHistory ended
    start,           \* heap and prompt context when the attempt started
    earlier,         \* summary text the previous attempt returned, if it did
    maxConcurrentSessions,  \* SessionManager._options.maxConcurrentSessions
    sessions,        \* SessionManager._sessions: ids of the tracked sessions
    disposed,        \* ids of the ChatSession objects whose _disposed is set
    totalSessions,   \* SessionManager._totalSessions
    completedSessions,      \* SessionManager._completedSessions
    failedSessions,  \* SessionManager._failedSessions
    requests,        \* the calls of handleRequest: where each is, how it ended
    built,           \* the elements ConversationHistory.render returned
    overlap,         \* a second summarizeHistory on the same prompt context
    serialized       \* the caller runs one attempt per conversation at a time

vars == <<heap, history, toolCallRounds, isContinuation, tokenBudget, pc,
          propsInfo, cancelled, summary, telemetry, log, result, start,
          earlier, maxConcurrentSessions, sessions, disposed, totalSessions,
          completedSessions, failedSessions, requests, built,
          overlap, serialized>>

\* --------------------------------------------------------------- helpers
Last(s) == s[Len(s)]

RECURSIVE SumTo(_, _)
SumTo(counts, n) == IF n = 0 THEN 0 ELSE counts[n] + SumTo(counts, n - 1)

\* IToolCallRound.id: a stable identifier, unique per round object.
RoundId(a) == "r" \o ToString(a)

\* The turn list whose i-th turn owns counts[i] consecutive round addresses.
TurnsOf(counts) ==
    [i \in 1..Len(counts) |->
        [rounds |-> [k \in 1..counts[i] |-> SumTo(counts, i - 1) + k]]]

\* The caller's prompt context, this.props.promptContext.
PromptContext ==
    [history |-> history, toolCallRounds |-> toolCallRounds,
     isContinuation |-> isContinuation]

NotBuilt == [done |-> FALSE, elements |-> <<>>]
NoProps == [threw |-> TRUE, error |-> Undefined]
NoResponse == [type |-> Undefined]
Pending == [kind |-> "pending"]

\* No second attempt: the caller serializes and starts none.
Idle == [pc |-> "idle", summarizedToolCallRoundId |-> Undefined,
         value |-> Undefined, result |-> Pending]
NoOverlap == overlap = Idle /\ serialized = TRUE
Returned(id, text) ==
    [kind |-> "returned", toolCallRoundId |-> id, summary |-> text]
Thrown(e) == [kind |-> "thrown", error |-> e]

\* -------------------------------------------------------- working notebook
\* ToolName.RunNotebookCell and another tool.
RunNotebookCell == "run_notebook_cell"
EditFile == "edit_file"

\* The `arguments` strings a tool call can carry.
FilePathArguments(path) == "{\"filePath\":\"" \o path \o "\"}"
Paths == {"nb1.ipynb", "nb2.ipynb", "closed.ipynb", "nowhere", "bad"}
Arguments ==
    {Undefined, "{", "null", "{\"filePath\":1}"} \cup
    {FilePathArguments(path) : path \in Paths}

\* JSON.parse on those strings: a SyntaxError, null, or an object whose
\* filePath is a number or a string.
JSONParse(arguments) ==
    IF arguments = "{" THEN [threw |-> TRUE]
    ELSE IF arguments = "null" THEN [threw |-> FALSE, null |-> TRUE]
    ELSE IF arguments = "{\"filePath\":1}"
    THEN [threw |-> FALSE, null |-> FALSE, typeofFilePath |-> "number"]
    ELSE [threw |-> FALSE, null |-> FALSE, typeofFilePath |-> "string",
          filePath |-> CHOOSE path \in Paths : arguments = FilePathArguments(path)]

\* IPromptPathRepresentationService.resolveFilePath: a URI, undefined, or an
\* exception.
resolveFilePath(filePath) ==
    IF filePath = "bad" THEN [threw |-> TRUE]
    ELSE IF filePath = "nowhere" THEN [threw |-> FALSE, uri |-> Undefined]
    ELSE [threw |-> FALSE, uri |-> "file:///" \o filePath]

\* IWorkspaceService.notebookDocuments, each document named by its URI.
notebookDocuments == {"file:///nb1.ipynb", "file:///nb2.ipynb"}

IsNotebookCall(call) == call.name = RunNotebookCell
HasNotebookCall(a) ==
    \E k \in DOMAIN heap[a].toolCalls : IsNotebookCall(heap[a].toolCalls[k])

\* The address that is no round: what `find` returns when nothing matches.
NoRound == 0

\* [...toolCallRounds].reverse().find(...): the newest round of the list
\* holding a RunNotebookCell call, or none.
NotebookRound(rounds) ==
    LET found == {k \in DOMAIN rounds : HasNotebookCall(rounds[k])} IN
    IF found = {} THEN NoRound
    ELSE rounds[CHOOSE k \in found : \A j \in found : j <= k]

\* toolCalls.find(...): the first RunNotebookCell call of a round.
NotebookCall(a) ==
    LET calls == heap[a].toolCalls
        found == {k \in DOMAIN calls : IsNotebookCall(calls[k])} IN
    calls[CHOOSE k \in found : \A j \in found : k <= j]

\* The body of the try block: what it returns, or that it threw, or that it
\* fell through to the `return undefined` after the block.
ResolveNotebook(arguments) ==
    LET args == JSONParse(arguments) IN
    IF args.threw \/ args.null THEN [threw |-> TRUE]
    ELSE IF args.typeofFilePath # "string"
    THEN [threw |-> FALSE, value |-> Undefined]
    ELSE LET resolved == resolveFilePath(args.filePath) IN
         IF resolved.threw THEN [threw |-> TRUE]
         ELSE IF resolved.uri = Undefined
         THEN [threw |-> FALSE, value |-> Undefined]
         ELSE [threw |-> FALSE,
               value |-> IF resolved.uri \in notebookDocuments
                         THEN resolved.uri ELSE Undefined]

\* Variant of getWorkingNotebook without the try/catch: an exception of the
\* body leaves the method.
getWorkingNotebook_Unguarded(promptContext) ==
    LET toolCallRound == NotebookRound(promptContext.toolCallRounds) IN
    IF toolCallRound = NoRound THEN [threw |-> FALSE, value |-> Undefined]
    ELSE LET toolCall == NotebookCall(toolCallRound) IN
         IF ~Truthy(toolCall.arguments)
         THEN [threw |-> FALSE, value |-> Undefined]
         ELSE ResolveNotebook(toolCall.arguments)

\* getWorkingNotebook: the open notebook named by the newest RunNotebookCell
\* call of props.promptContext.toolCallRounds, or undefined.
getWorkingNotebook(promptContext) ==
    LET toolCallRound == NotebookRound(promptContext.toolCallRounds) IN
    IF toolCallRound = NoRound THEN [threw |-> FALSE, value |-> Undefined]
    ELSE LET toolCall == NotebookCall(toolCallRound) IN
         IF ~Truthy(toolCall.arguments)
         THEN [threw |-> FALSE, value |-> Undefined]
         ELSE LET body == ResolveNotebook(toolCall.arguments) IN
              IF body.threw THEN [threw |-> FALSE, value |-> Undefined]
              ELSE body

\* ------------------------------------------------------------- selection
\* Variant of getProps, rule 1 off by one: the covered round is the dropped
\* last pending round.
getProps_CoversDropped(promptContext) ==
    LET rounds == promptContext.toolCallRounds IN
    IF Len(rounds) > 1 THEN
        [threw |-> FALSE,
         promptContext |-> [promptContext EXCEPT
             !.toolCallRounds = SubSeq(rounds, 1, Len(rounds) - 1)],
         summarizedToolCallRoundId |-> heap[Last(rounds)].id]
    ELSE IF Len(promptContext.history) > 0 THEN
        [threw |-> FALSE,
         promptContext |-> [promptContext EXCEPT !.toolCallRounds = <<>>,
                                                 !.isContinuation = TRUE],
         summarizedToolCallRoundId |->
             heap[Last(Last(promptContext.history).rounds)].id]
    ELSE
        [threw |-> TRUE, error |-> "Nothing to summarize"]

\* Variant of getProps, rule 2 taking `rounds.at(0)` of the last turn.
getProps_FirstRound(promptContext) ==
    LET rounds == promptContext.toolCallRounds IN
    IF Len(rounds) > 1 THEN
        LET sliced == SubSeq(rounds, 1, Len(rounds) - 1) IN
        [threw |-> FALSE,
         promptContext |-> [promptContext EXCEPT !.toolCallRounds = sliced],
         summarizedToolCallRoundId |-> heap[Last(sliced)].id]
    ELSE IF Len(promptContext.history) > 0 THEN
        [threw |-> FALSE,
         promptContext |-> [promptContext EXCEPT !.toolCallRounds = <<>>,
                                                 !.isContinuation = TRUE],
         summarizedToolCallRoundId |->
             heap[Last(promptContext.history).rounds[1]].id]
    ELSE
        [threw |-> TRUE, error |-> "Nothing to summarize"]

\* Variant of getProps, rule 2 covering the last round of the oldest turn.
getProps_OldestTurn(promptContext) ==
    LET rounds == promptContext.toolCallRounds IN
    IF Len(rounds) > 1 THEN
        LET sliced == SubSeq(rounds, 1, Len(rounds) - 1) IN
        [threw |-> FALSE,
         promptContext |-> [promptContext EXCEPT !.toolCallRounds = sliced],
         summarizedToolCallRoundId |-> heap[Last(sliced)].id,
         workingNotebook |-> Undefined]
    ELSE IF Len(promptContext.history) > 0 THEN
        [threw |-> FALSE,
         promptContext |-> [promptContext EXCEPT !.toolCallRounds = <<>>,
                                                 !.isContinuation = TRUE],
         summarizedToolCallRoundId |->
             heap[Last(promptContext.history[1].rounds)].id,
         workingNotebook |-> Undefined]
    ELSE
        [threw |-> TRUE, error |-> "Nothing to summarize"]

\* SummarizedConversationHistoryPropsBuilder.getProps: the pending rounds to
\* summarize, the continuation flag and the id of the covered round, or the
\* 'Nothing to summarize' error.  The returned promptContext is a shallow
\* copy: it holds the same round objects (addresses).
getProps(promptContext) ==
    LET rounds == promptContext.toolCallRounds
        workingNotebook == getWorkingNotebook(promptContext) IN
    IF Len(rounds) > 1 THEN
        LET sliced == SubSeq(rounds, 1, Len(rounds) - 1) IN
        IF workingNotebook.threw
        THEN [threw |-> TRUE, error |-> "getWorkingNotebook"]
        ELSE [threw |-> FALSE,
              promptContext |-> [promptContext EXCEPT !.toolCallRounds = sliced],
              summarizedToolCallRoundId |-> heap[Last(sliced)].id,
              workingNotebook |-> workingNotebook.value]
    ELSE IF Len(promptContext.history) > 0 THEN
        IF workingNotebook.threw
        THEN [threw |-> TRUE, error |-> "getWorkingNotebook"]
        ELSE [threw |-> FALSE,
              promptContext |-> [promptContext EXCEPT !.toolCallRounds = <<>>,
                                                      !.isContinuation = TRUE],
              summarizedToolCallRoundId |->
                  heap[Last(Last(promptContext.history).rounds)].id,
              workingNotebook |-> workingNotebook.value]
    ELSE
        [threw |-> TRUE, error |-> "Nothing to summarize"]

\* ---------------------------------------------------------- installation
\* Array.prototype.find over a round list: the first round whose id matches,
\* or 0 when there is none.
FindRound(hp, rounds, id) ==
    LET hits == {k \in 1..Len(rounds) : hp[rounds[k]].id = id} IN
    IF hits = {} THEN 0
    ELSE rounds[CHOOSE k \in hits : \A j \in hits : k <= j]

\* The loop over [...history].reverse(): the match in the newest turn having one.
\* Variant of FindInHistory that scans the prior turns oldest first.
FindInHistory_OldestFirst(hp, hist, i, id) ==
    LET turns == {t \in 1..i : FindRound(hp, hist[t].rounds, id) # 0} IN
    IF turns = {} THEN 0
    ELSE FindRound(hp, hist[CHOOSE t \in turns : \A u \in turns : t <= u].rounds, id)

RECURSIVE FindInHistory(_, _, _, _)
FindInHistory(hp, hist, i, id) ==
    IF i = 0 THEN 0
    ELSE LET a == FindRound(hp, hist[i].rounds, id) IN
         IF a # 0 THEN a ELSE FindInHistory(hp, hist, i - 1, id)

\* Variant of addSummaryToHistory that looks in the prior turns only.
addSummaryToHistory_HistoryOnly(hp, text, toolCallRoundId) ==
    LET old == FindInHistory(hp, history, Len(history), toolCallRoundId) IN
    IF old # 0 THEN [hp EXCEPT ![old].summary = text] ELSE hp

\* Variant of addSummaryToHistory that appends the text to a summary the
\* round already carries instead of overwriting it.
addSummaryToHistory_Appends(hp, text, toolCallRoundId) ==
    LET round == FindRound(hp, toolCallRounds, toolCallRoundId)
        old == FindInHistory(hp, history, Len(history), toolCallRoundId)
        found == IF round # 0 THEN round ELSE old IN
    IF found = 0 THEN hp
    ELSE [hp EXCEPT ![found].summary =
              IF @ = Undefined THEN text ELSE @ \o text]

\* addSummaryToHistory: the heap after `round.summary = summary` on the round
\* found among the pending rounds, else in the prior turns, else unchanged.
addSummaryToHistory(hp, text, toolCallRoundId) ==
    LET round == FindRound(hp, toolCallRounds, toolCallRoundId) IN
    IF round # 0 THEN [hp EXCEPT ![round].summary = text]
    ELSE LET old == FindInHistory(hp, history, Len(history), toolCallRoundId) IN
         IF old # 0 THEN [hp EXCEPT ![old].summary = text] ELSE hp

\* -------------------------------------------------------------- telemetry
\* history.map(turn => turn.rounds.length).reduce((a, b) => a + b, 0)
RECURSIVE numRoundsInHistory(_, _)
numRoundsInHistory(hist, i) ==
    IF i = 0 THEN 0 ELSE Len(hist[i].rounds) + numRoundsInHistory(hist, i - 1)

\* reversedCurrentRounds.findIndex(round => round.summary): the 0-based index,
\* newest first, of the first pending round with a truthy summary, or -1.
FindIndexSummarized(hp, rounds) ==
    LET n == Len(rounds)
        hits == {k \in 0..(n - 1) : Truthy(hp[rounds[n - k]].summary)} IN
    IF hits = {} THEN -1 ELSE CHOOSE k \in hits : \A j \in hits : k <= j

\* The inner loop over one turn's rounds, newest first, from round k: `break`
\* leaves this loop only.
RECURSIVE ScanTurn(_, _, _, _)
ScanTurn(hp, rounds, k, count) ==
    IF k = 0 THEN [count |-> count, hit |-> FALSE]
    ELSE IF Truthy(hp[rounds[k]].summary) THEN [count |-> count, hit |-> TRUE]
    ELSE ScanTurn(hp, rounds, k - 1, count + 1)

\* The outer loop over the turns, newest first, from turn i; n is the value
\* numRoundsSinceLastSummarization holds so far.
RECURSIVE ScanHistory(_, _, _, _, _)
ScanHistory(hp, hist, i, count, n) ==
    IF i = 0 THEN n
    ELSE LET r == ScanTurn(hp, hist[i].rounds, Len(hist[i].rounds), count) IN
         ScanHistory(hp, hist, i - 1, r.count, IF r.hit THEN r.count ELSE n)

numRoundsSinceLastSummarization(hp) ==
    LET first == FindIndexSummarized(hp, toolCallRounds) IN
    IF first = -1
    THEN ScanHistory(hp, history, Len(history), Len(toolCallRounds), -1)
    ELSE first

\* toolCallRounds?.at(-1)?.toolCalls?.at(-1)?.name
LastToolOf(hp, rounds) ==
    IF Len(rounds) = 0 THEN Undefined
    ELSE LET calls == hp[Last(rounds)].toolCalls IN
         IF Len(calls) = 0 THEN Undefined ELSE Last(calls).name

lastUsedTool(hp) ==
    LET current == LastToolOf(hp, toolCallRounds)
        previous == IF Len(history) = 0 THEN Undefined
                    ELSE LastToolOf(hp, Last(history).rounds) IN
    IF current # Undefined THEN current
    ELSE IF previous # Undefined THEN previous ELSE "none"

\* sendSummarizationTelemetry: the event handed to sendMSFTTelemetryEvent,
\* computed over the caller's prompt context.
sendSummarizationTelemetry(outcome, requestId, model, detailedOutcome) ==
    [outcome |-> outcome,
     detailedOutcome |-> detailedOutcome,
     requestId |-> requestId,
     model |-> model,
     lastUsedTool |-> lastUsedTool(heap),
     conversationId |-> ConversationSessionId,
     numRounds |-> numRoundsInHistory(history, Len(history)) + Len(toolCallRounds),
     numRoundsSinceLastSummarization |-> numRoundsSinceLastSummarization(heap),
     isDuringToolCalling |-> IF Len(toolCallRounds) > 0 THEN 1 ELSE 0]

\* ---------------------------------------------------------------- build
\* Elements ConversationHistory.render emits: the user message of a turn, a
\* conversation-summary message, the tool-call rounds of a turn.  Turn
\* Len(history) + 1 is the in-progress turn.
AgentUserMessage(turn) ==
    [kind |-> "user", turn |-> turn, text |-> Undefined, rounds |-> <<>>]
SummaryMessage(turn, text) ==
    [kind |-> "summary", turn |-> turn, text |-> text, rounds |-> <<>>]
ChatToolCalls(turn, rounds) ==
    [kind |-> "toolCalls", turn |-> turn, text |-> Undefined, rounds |-> rounds]

\* Variant of Reverse that leaves the order as it is.
Reverse_Kept(seq) == seq

\* Array.prototype.reverse
Reverse(seq) == [k \in 1..Len(seq) |-> seq[Len(seq) + 1 - k]]

\* The backward loop over a round list from index k: the rounds pushed,
\* newest first, until a round with a truthy summary stops the loop.
RECURSIVE ScanRounds(_, _, _, _)
ScanRounds(hp, rounds, k, pushed) ==
    IF k = 0 THEN [summary |-> Undefined, rounds |-> pushed]
    ELSE IF Truthy(hp[rounds[k]].summary)
    THEN [summary |-> hp[rounds[k]].summary, rounds |-> pushed]
    ELSE ScanRounds(hp, rounds, k - 1, Append(pushed, rounds[k]))

\* The loop over the prior turns, newest first, from turn i: each turn pushes
\* its tool calls and then its user message or summary; a summary ends the loop.
RECURSIVE RenderTurns(_, _, _, _)
RenderTurns(hp, hist, i, pushed) ==
    IF i = 0 THEN pushed
    ELSE LET scan == ScanRounds(hp, hist[i].rounds, Len(hist[i].rounds), <<>>)
             turnComponents ==
                 <<IF scan.summary # Undefined
                   THEN SummaryMessage(i, scan.summary)
                   ELSE AgentUserMessage(i),
                   ChatToolCalls(i, Reverse(scan.rounds))>>
             next == pushed \o Reverse(turnComponents) IN
         IF scan.summary # Undefined THEN next
         ELSE RenderTurns(hp, hist, i - 1, next)

\* ConversationHistory.render: the elements of the prompt, in the order of
\* the returned PrioritizedList.
ConversationHistoryRender(hp, promptContext) ==
    LET rounds == promptContext.toolCallRounds
        current == Len(promptContext.history) + 1
        scan == ScanRounds(hp, rounds, Len(rounds), <<>>)
        calls == IF Len(rounds) > 0
                 THEN <<ChatToolCalls(current, Reverse(scan.rounds))>>
                 ELSE <<>> IN
    IF scan.summary # Undefined
    THEN Reverse(Append(calls, SummaryMessage(current, scan.summary)))
    ELSE LET user == IF ~promptContext.isContinuation
                     THEN Append(calls, AgentUserMessage(current))
                     ELSE calls IN
         Reverse(RenderTurns(hp, promptContext.history,
                             Len(promptContext.history), user))

\* ------------------------------------------------------------ the attempt
\* The session manager as constructed with no options, no request made.
NoRequest == [pc |-> "idle", conversation |-> Undefined, outcome |-> Undefined]
NoSessionManager ==
    /\ maxConcurrentSessions = DefaultMaxConcurrentSessions
    /\ sessions = {}
    /\ disposed = {}
    /\ totalSessions = 0
    /\ completedSessions = 0
    /\ failedSessions = 0
    /\ requests = [r \in 1..MaxRequests |-> NoRequest]

\* The state when render(state, sizing, progress, token) is called with
\* triggerSummarize set: any history of at most MaxTurns turns of 1..MaxRounds
\* rounds, at most MaxPending pending rounds, at most MaxSummarized rounds
\* already carrying a summary from an earlier compaction, either continuation
\* flag, any token budget.  The newest pending round carries none: a summary
\* is only ever installed on a round getProps covers, and getProps never
\* covers the newest pending round.
Init ==
    \E counts \in UNION {[1..n -> 1..MaxRounds] : n \in 0..MaxTurns} :
    \E pending \in 0..MaxPending :
    \E summarized \in
           {S \in SUBSET (1..(SumTo(counts, Len(counts)) + pending)) :
               /\ Cardinality(S) <= MaxSummarized
               /\ pending > 0 => (SumTo(counts, Len(counts)) + pending) \notin S} :
        /\ heap = [a \in 1..(SumTo(counts, Len(counts)) + pending) |->
                      [id |-> RoundId(a),
                       summary |-> IF a \in summarized THEN "S0" ELSE Undefined,
                       toolCalls |-> <<>>]]
        /\ history = TurnsOf(counts)
        /\ toolCallRounds =
               [k \in 1..pending |-> SumTo(counts, Len(counts)) + k]
        /\ isContinuation \in BOOLEAN
        /\ tokenBudget \in TokenBudgets
        /\ pc = "idle"
        /\ propsInfo = NoProps
        /\ cancelled = FALSE
        /\ summary = NoResponse
        /\ telemetry = <<>>
        /\ log = <<>>
        /\ result = Pending
        /\ start = [heap |-> heap, history |-> history,
                    toolCallRounds |-> toolCallRounds,
                    isContinuation |-> isContinuation]
        /\ earlier = Undefined
        /\ built = NotBuilt
        /\ NoOverlap
        /\ NoSessionManager

context == <<history, toolCallRounds, isContinuation, tokenBudget, start,
             earlier, maxConcurrentSessions, sessions, disposed, totalSessions,
             completedSessions, failedSessions, requests, built,
          overlap, serialized>>

\* Variant of OutcomeOf that reports every non-success response as 'failed'.
OutcomeOf_AlwaysFailed(type) == "failed"

\* `summary.type === ChatFetchResponseType.Failed ? 'failed' : summary.type`
OutcomeOf(type) == IF type = Failed THEN "failed" ELSE type

\* Variant of TooLarge comparing with `>=`.
TooLarge_AtLeast(text, budget) == countTokens(text) >= budget

\* `await sizing.countTokens(summary.value) > sizing.tokenBudget`
TooLarge(text, budget) == countTokens(text) > budget

\* Variant of ReportAndThrow that sends the event twice.
ReportAndThrow_Twice(outcome, requestId, detailedOutcome, error) ==
    LET event == sendSummarizationTelemetry(outcome, requestId, EndpointModel,
                                            detailedOutcome) IN
    /\ telemetry' = telemetry \o <<event, event>>
    /\ log' = log \o <<"telemetry", "telemetry", "throw">>
    /\ result' = Thrown(error)
    /\ pc' = "done"

\* Variant of ReportAndThrow that raises without reporting.
ReportAndThrow_Silent(outcome, requestId, detailedOutcome, error) ==
    /\ telemetry' = telemetry
    /\ log' = Append(log, "throw")
    /\ result' = Thrown(error)
    /\ pc' = "done"

\* A catch block or failure branch of summarizeHistory: report, then raise.
ReportAndThrow(outcome, requestId, detailedOutcome, error) ==
    /\ telemetry' = Append(telemetry,
           sendSummarizationTelemetry(outcome, requestId, EndpointModel,
                                      detailedOutcome))
    /\ log' = log \o <<"telemetry", "throw">>
    /\ result' = Thrown(error)
    /\ pc' = "done"

\* Variant of SummarizeHistory whose selection shortens the caller's pending
\* list and sets the caller's continuation flag in place.
SummarizeHistory_InPlace ==
    /\ pc = "idle"
    /\ LET info == getProps(PromptContext) IN
       IF info.threw
       THEN /\ log' = log \o <<"select", "throw">>
            /\ result' = Thrown(info.error)
            /\ pc' = "done"
            /\ UNCHANGED <<propsInfo, toolCallRounds, isContinuation>>
       ELSE /\ propsInfo' = info
            /\ toolCallRounds' = info.promptContext.toolCallRounds
            /\ isContinuation' = info.promptContext.isContinuation
            /\ log' = log \o <<"select", "render">>
            /\ pc' = "rendering"
            /\ UNCHANGED result
    /\ UNCHANGED <<heap, cancelled, summary, telemetry, history, tokenBudget,
                   start, earlier, maxConcurrentSessions, sessions, disposed,
                   totalSessions, completedSessions, failedSessions, requests,
                   built, overlap, serialized>>

\* Variant of SummarizeHistory that starts rendering before it selects.
SummarizeHistory_RenderFirst ==
    /\ pc = "idle"
    /\ LET info == getProps(PromptContext) IN
       IF info.threw
       THEN /\ log' = log \o <<"render", "select", "throw">>
            /\ result' = Thrown(info.error)
            /\ pc' = "done"
            /\ UNCHANGED propsInfo
       ELSE /\ propsInfo' = info
            /\ log' = log \o <<"render", "select">>
            /\ pc' = "rendering"
            /\ UNCHANGED result
    /\ UNCHANGED <<heap, cancelled, summary, telemetry, context>>

\* summarizeHistory up to its first await: getProps, which may throw, then
\* the call of renderPromptElement.
SummarizeHistory ==
    /\ pc = "idle"
    /\ LET info == getProps(PromptContext) IN
       IF info.threw
       THEN /\ log' = log \o <<"select", "throw">>
            /\ result' = Thrown(info.error)
            /\ pc' = "done"
            /\ UNCHANGED propsInfo
       ELSE /\ propsInfo' = info
            /\ log' = log \o <<"select", "render">>
            /\ pc' = "rendering"
            /\ UNCHANGED result
    /\ UNCHANGED <<heap, cancelled, summary, telemetry, context>>

\* renderPromptElement rejects: the first catch block.
RenderFails ==
    /\ pc = "rendering"
    /\ \E e \in RenderErrors :
           ReportAndThrow(IF e = BudgetExceededError THEN "budget_exceeded"
                          ELSE "renderError", "", Undefined, e)
    /\ UNCHANGED <<heap, propsInfo, cancelled, summary, context>>

\* renderPromptElement resolves: makeChatRequest is called, then
\* progress?.report, up to `await summaryPromise`.  A raising report lands in
\* the second catch block.
RenderSucceeds ==
    /\ pc = "rendering"
    /\ \E progress \in ProgressBehaviours :
           IF progress = "raises"
           THEN /\ telemetry' = Append(telemetry,
                       sendSummarizationTelemetry("requestThrow", "",
                                                  EndpointModel, Undefined))
                /\ log' = log \o <<"request", "telemetry", "throw">>
                /\ result' = Thrown(ProgressError)
                /\ pc' = "done"
           ELSE /\ log' = Append(log, "request")
                /\ pc' = "requesting"
                /\ UNCHANGED <<telemetry, result>>
    /\ UNCHANGED <<heap, propsInfo, cancelled, summary, context>>

\* The cancellation token fires while the request is outstanding.
Cancel ==
    /\ pc = "requesting"
    /\ ~cancelled
    /\ cancelled' = TRUE
    /\ UNCHANGED <<heap, pc, propsInfo, summary, telemetry, log, result, context>>

\* Errors makeChatRequest can reject with: a cancellation only once the token
\* has fired.
RequestErrors == {"NetworkError"} \cup (IF cancelled THEN {CancellationError} ELSE {})

\* Response types makeChatRequest can resolve with: Canceled only once the
\* token has fired.
RequestResponseTypes == IF cancelled THEN ResponseTypes ELSE ResponseTypes \ {Canceled}

\* Variant of RequestThrows that re-raises a cancellation without reporting it.
RequestThrows_UnreportedCancellation ==
    /\ pc = "requesting"
    /\ \E e \in RequestErrors :
           IF e = CancellationError
           THEN /\ log' = Append(log, "throw")
                /\ result' = Thrown(e)
                /\ pc' = "done"
                /\ UNCHANGED telemetry
           ELSE ReportAndThrow("requestThrow", "", Undefined, e)
    /\ UNCHANGED <<heap, propsInfo, cancelled, summary, context>>

\* `await summaryPromise` rejects: the second catch block.
RequestThrows ==
    /\ pc = "requesting"
    /\ \E e \in RequestErrors : ReportAndThrow("requestThrow", "", Undefined, e)
    /\ UNCHANGED <<heap, propsInfo, cancelled, summary, context>>

\* Variant of RequestNotSuccess that counts the tokens of a response that is
\* not a success before reporting it.
RequestNotSuccess_CountsTokens ==
    /\ pc = "requesting"
    /\ \E type \in RequestResponseTypes \ {Success} :
           /\ summary' = [type |-> type, requestId |-> RequestId, reason |-> Reason]
           /\ telemetry' = Append(telemetry,
                  sendSummarizationTelemetry(OutcomeOf(type), RequestId,
                                             EndpointModel, Reason))
           /\ log' = log \o <<"count", "telemetry", "throw">>
           /\ result' = Thrown("Summarization failed")
           /\ pc' = "done"
    /\ UNCHANGED <<heap, propsInfo, cancelled, context>>

\* `await summaryPromise` resolves with a response that is not Success.
RequestNotSuccess ==
    /\ pc = "requesting"
    /\ \E type \in RequestResponseTypes \ {Success} :
           /\ summary' = [type |-> type, requestId |-> RequestId, reason |-> Reason]
           /\ ReportAndThrow(OutcomeOf(type), RequestId, Reason,
                             "Summarization failed")
    /\ UNCHANGED <<heap, propsInfo, cancelled, context>>

\* `await summaryPromise` resolves with Success: sizing.countTokens is called.
RequestSucceeds ==
    /\ pc = "requesting"
    /\ Success \in RequestResponseTypes
    /\ \E text \in Texts :
           summary' = [type |-> Success, requestId |-> RequestId, value |-> text]
    /\ log' = Append(log, "count")
    /\ pc' = "counting"
    /\ UNCHANGED <<heap, propsInfo, cancelled, telemetry, result, context>>

\* Variant of CountSettles that installs the summary before it checks the size.
CountSettles_PatchFirst ==
    /\ pc = "counting"
    /\ heap' = addSummaryToHistory(heap, summary.value,
                                   propsInfo.summarizedToolCallRoundId)
    /\ IF TooLarge(summary.value, tokenBudget)
       THEN ReportAndThrow("too_large", summary.requestId, Undefined,
                           "Summary too large")
       ELSE /\ telemetry' = Append(telemetry,
                   sendSummarizationTelemetry("success", summary.requestId,
                                              EndpointModel, Undefined))
            /\ log' = log \o <<"patch", "telemetry", "return">>
            /\ result' = Returned(propsInfo.summarizedToolCallRoundId, summary.value)
            /\ pc' = "done"
    /\ UNCHANGED <<propsInfo, cancelled, summary, context>>

\* `await sizing.countTokens(summary.value)` resolves: too large, or report
\* success, install the summary and return it.
CountSettles ==
    /\ pc = "counting"
    /\ IF TooLarge(summary.value, tokenBudget)
       THEN /\ ReportAndThrow("too_large", summary.requestId, Undefined,
                              "Summary too large")
            /\ UNCHANGED heap
       ELSE /\ telemetry' = Append(telemetry,
                   sendSummarizationTelemetry("success", summary.requestId,
                                              EndpointModel, Undefined))
            /\ heap' = addSummaryToHistory(heap, summary.value,
                                           propsInfo.summarizedToolCallRoundId)
            /\ log' = log \o <<"telemetry", "patch", "return">>
            /\ result' = Returned(propsInfo.summarizedToolCallRoundId, summary.value)
            /\ pc' = "done"
    /\ UNCHANGED <<propsInfo, cancelled, summary, context>>

Next ==
    \/ SummarizeHistory
    \/ RenderFails
    \/ RenderSucceeds
    \/ Cancel
    \/ RequestThrows
    \/ RequestNotSuccess
    \/ RequestSucceeds
    \/ CountSettles

Spec == Init /\ [][Next]_vars

\* ------------------------------------------- a telemetry sink that raises
\* sendMSFTTelemetryEvent raises: sendSummarizationTelemetry is called outside
\* any try block (406, 411, 416) or inside a catch block (365, 398), so the
\* error of the sink is what leaves summarizeHistory, and no statement after
\* the call runs.
TelemetryError == "TelemetryError"

SinkRaises ==
    /\ log' = Append(log, "throw")
    /\ result' = Thrown(TelemetryError)
    /\ pc' = "done"
    /\ UNCHANGED <<heap, propsInfo, cancelled, telemetry, context>>

\* The first catch block, the sink raising at line 365.
RenderFailsSinkRaises ==
    /\ pc = "rendering"
    /\ SinkRaises
    /\ UNCHANGED summary

\* The second catch block, the sink raising at line 398.
RequestThrowsSinkRaises ==
    /\ pc = "requesting"
    /\ RequestErrors # {}
    /\ SinkRaises
    /\ UNCHANGED summary

\* A response that is not Success, the sink raising at line 406.
RequestNotSuccessSinkRaises ==
    /\ pc = "requesting"
    /\ \E type \in RequestResponseTypes \ {Success} :
           summary' = [type |-> type, requestId |-> RequestId, reason |-> Reason]
    /\ SinkRaises

\* The token count is in, the sink raising at line 411 or 416: before
\* 'Summary too large' is thrown, or before addSummaryToHistory is called.
CountSettlesSinkRaises ==
    /\ pc = "counting"
    /\ SinkRaises
    /\ UNCHANGED summary

NextSink ==
    \/ Next
    \/ RenderFailsSinkRaises
    \/ RequestThrowsSinkRaises
    \/ RequestNotSuccessSinkRaises
    \/ CountSettlesSinkRaises

SpecSink == Init /\ [][NextSink]_vars

\* ------------------------------------------------- overlapping attempts
\* A second render of the same conversation calls summarizeHistory on the
\* same prompt context, sharing the round objects.  It starts once the first
\* attempt has selected; a caller that serializes starts it only after the
\* first attempt has ended.  Conversations not compacted yet, new user
\* request.  The telemetry events of the second attempt are not recorded.
OverlapTexts == Texts \cup {"S2"}

InitOverlap ==
    \E counts \in UNION {[1..n -> 1..MaxRounds] : n \in 0..MaxTurns} :
    \E pending \in 0..MaxPending :
        /\ heap = [a \in 1..(SumTo(counts, Len(counts)) + pending) |->
                      [id |-> RoundId(a), summary |-> Undefined,
                       toolCalls |-> <<>>]]
        /\ history = TurnsOf(counts)
        /\ toolCallRounds =
               [k \in 1..pending |-> SumTo(counts, Len(counts)) + k]
        /\ isContinuation = FALSE
        /\ tokenBudget \in TokenBudgets
        /\ pc = "idle"
        /\ propsInfo = NoProps
        /\ cancelled = FALSE
        /\ summary = NoResponse
        /\ telemetry = <<>>
        /\ log = <<>>
        /\ result = Pending
        /\ start = [heap |-> heap, history |-> history,
                    toolCallRounds |-> toolCallRounds,
                    isContinuation |-> isContinuation]
        /\ earlier = Undefined
        /\ built = NotBuilt
        /\ overlap = Idle
        /\ serialized \in BOOLEAN
        /\ NoSessionManager

\* What the second attempt leaves alone, besides the heap and the log.
firstAttempt ==
    <<history, toolCallRounds, isContinuation, tokenBudget, pc, propsInfo,
      cancelled, summary, telemetry, result, start, earlier,
      maxConcurrentSessions, sessions, disposed, totalSessions,
      completedSessions, failedSessions, requests, built, serialized>>

\* The second summarizeHistory: getProps, then rendering and the request.
OverlapSummarizeHistory ==
    /\ overlap.pc = "idle"
    /\ pc # "idle"
    /\ serialized => pc = "done"
    /\ LET info == getProps(PromptContext) IN
       IF info.threw
       THEN overlap' = [overlap EXCEPT !.pc = "done",
                                       !.result = Thrown(info.error)]
       ELSE overlap' = [overlap EXCEPT
                           !.pc = "requesting",
                           !.summarizedToolCallRoundId =
                               info.summarizedToolCallRoundId]
    /\ log' = Append(log, "select2")
    /\ UNCHANGED <<heap, firstAttempt>>

\* Rendering or the request of the second attempt fails.
OverlapFails ==
    /\ overlap.pc = "requesting"
    /\ \E e \in RenderErrors \cup {"NetworkError", "Summarization failed"} :
           overlap' = [overlap EXCEPT !.pc = "done", !.result = Thrown(e)]
    /\ UNCHANGED <<heap, log, firstAttempt>>

\* The request of the second attempt resolves with Success.
OverlapRequestSucceeds ==
    /\ overlap.pc = "requesting"
    /\ \E text \in OverlapTexts :
           overlap' = [overlap EXCEPT !.pc = "counting", !.value = text]
    /\ UNCHANGED <<heap, log, firstAttempt>>

\* Variant of OverlapCountSettles that leaves a summary installed meanwhile
\* in place.
OverlapCountSettles_KeepsFirst ==
    /\ overlap.pc = "counting"
    /\ IF TooLarge(overlap.value, tokenBudget)
       THEN /\ overlap' = [overlap EXCEPT !.pc = "done",
                                          !.result = Thrown("Summary too large")]
            /\ UNCHANGED <<heap, log>>
       ELSE /\ heap' = IF heap = start.heap
                       THEN addSummaryToHistory(heap, overlap.value,
                                                overlap.summarizedToolCallRoundId)
                       ELSE heap
            /\ log' = Append(log, "patch2")
            /\ overlap' = [overlap EXCEPT
                               !.pc = "done",
                               !.result = Returned(overlap.summarizedToolCallRoundId,
                                                   overlap.value)]
    /\ UNCHANGED firstAttempt

\* The token count of the second attempt is in: too large, or install the
\* summary and return it.
OverlapCountSettles ==
    /\ overlap.pc = "counting"
    /\ IF TooLarge(overlap.value, tokenBudget)
       THEN /\ overlap' = [overlap EXCEPT !.pc = "done",
                                          !.result = Thrown("Summary too large")]
            /\ UNCHANGED <<heap, log>>
       ELSE /\ heap' = addSummaryToHistory(heap, overlap.value,
                                           overlap.summarizedToolCallRoundId)
            /\ log' = Append(log, "patch2")
            /\ overlap' = [overlap EXCEPT
                               !.pc = "done",
                               !.result = Returned(overlap.summarizedToolCallRoundId,
                                                   overlap.value)]
    /\ UNCHANGED firstAttempt

NextOverlap ==
    \/ Next
    \/ OverlapSummarizeHistory
    \/ OverlapFails
    \/ OverlapRequestSucceeds
    \/ OverlapCountSettles

SpecOverlap == InitOverlap /\ [][NextOverlap]_vars

\* ------------------------------------------------------ the build alone
\* ConversationHistory.render called on any of the prompt contexts an attempt
\* can start from; the token budget plays no part in it.
InitBuild == Init /\ tokenBudget = countTokens("")

Render ==
    /\ ~built.done
    /\ built' = [done |-> TRUE,
                 elements |-> ConversationHistoryRender(heap, PromptContext)]
    /\ UNCHANGED <<heap, history, toolCallRounds, isContinuation, tokenBudget,
                   pc, propsInfo, cancelled, summary, telemetry, log, result,
                   start, earlier, maxConcurrentSessions, sessions, disposed,
                   totalSessions, completedSessions, failedSessions, requests,
                   overlap, serialized>>

NextBuild == Render

SpecBuild == InitBuild /\ [][NextBuild]_vars

\* ------------------------------------------------------ the patch alone
\* addSummaryToHistory applied on its own to any conversation, any text and
\* any id.  Ids are compared with ===, nothing makes them unique: up to
\* MaxSameId rounds anywhere share the id "dup".  No round carries a summary
\* yet, so the rounds written are the rounds that carry one afterwards.
InitPatch ==
    \E counts \in UNION {[1..n -> 1..MaxRounds] : n \in 0..MaxTurns} :
    \E pending \in 0..MaxPending :
    \E dup \in {S \in SUBSET (1..(SumTo(counts, Len(counts)) + pending)) :
                    Cardinality(S) <= MaxSameId} :
        /\ heap = [a \in 1..(SumTo(counts, Len(counts)) + pending) |->
                      [id |-> IF a \in dup THEN "dup" ELSE RoundId(a),
                       summary |-> Undefined,
                       toolCalls |-> <<>>]]
        /\ history = TurnsOf(counts)
        /\ toolCallRounds =
               [k \in 1..pending |-> SumTo(counts, Len(counts)) + k]
        /\ isContinuation = FALSE
        /\ tokenBudget = countTokens("S1")
        /\ pc = "idle"
        /\ propsInfo = NoProps
        /\ cancelled = FALSE
        /\ summary = NoResponse
        /\ telemetry = <<>>
        /\ log = <<>>
        /\ result = Pending
        /\ start = [heap |-> heap, history |-> history,
                    toolCallRounds |-> toolCallRounds,
                    isContinuation |-> isContinuation]
        /\ earlier = Undefined
        /\ built = NotBuilt
        /\ NoOverlap
        /\ NoSessionManager

\* One call addSummaryToHistory(text, id); it returns normally.
Patch ==
    /\ pc = "idle"
    /\ \E text \in Texts :
       \E id \in {heap[a].id : a \in DOMAIN heap} \cup {"r0"} :
           /\ heap' = addSummaryToHistory(heap, text, id)
           /\ result' = Returned(id, text)
    /\ log' = <<"patch", "return">>
    /\ pc' = "done"
    /\ UNCHANGED <<propsInfo, cancelled, summary, telemetry, context>>

NextPatch == Patch

SpecPatch == InitPatch /\ [][NextPatch]_vars

\* ---------------------------------------------------- the session manager
\* No compaction attempt is looked at: an empty conversation, nothing started.
NoCompaction ==
    /\ heap = <<>>
    /\ history = <<>>
    /\ toolCallRounds = <<>>
    /\ isContinuation = FALSE
    /\ tokenBudget = countTokens("")
    /\ pc = "idle"
    /\ propsInfo = NoProps
    /\ cancelled = FALSE
    /\ summary = NoResponse
    /\ telemetry = <<>>
    /\ log = <<>>
    /\ result = Pending
    /\ start = [heap |-> heap, history |-> history,
                toolCallRounds |-> toolCallRounds,
                isContinuation |-> isContinuation]
    /\ earlier = Undefined
    /\ built = NotBuilt
    /\ NoOverlap

compaction == <<heap, history, toolCallRounds, isContinuation, tokenBudget, pc,
                propsInfo, cancelled, summary, telemetry, log, result, start,
                earlier, built, overlap, serialized>>

\* The constructor: maxConcurrentSessions is the option when one is passed
\* (0..MaxLimit), else the default.
InitSessions ==
    /\ NoCompaction
    /\ maxConcurrentSessions \in (0..MaxLimit) \cup {DefaultMaxConcurrentSessions}
    /\ sessions = {}
    /\ disposed = {}
    /\ totalSessions = 0
    /\ completedSessions = 0
    /\ failedSessions = 0
    /\ requests = [r \in 1..MaxRequests |-> NoRequest]

\* generateSessionId: a fresh id for every call of handleRequest.
generateSessionId(r) == "session-" \o ToString(r)

Resolved(value) == [kind |-> "returned", value |-> value]

\* Variant of createSession that refuses only above the limit.
createSession_AboveLimit(sessionId) ==
    IF Cardinality(sessions) > maxConcurrentSessions
    THEN [threw |-> TRUE, error |-> LimitError]
    ELSE [threw |-> FALSE, sessions |-> sessions \cup {sessionId},
          totalSessions |-> totalSessions + 1]

\* createSession: throws at the limit, else tracks the session and counts it.
createSession(sessionId) ==
    IF Cardinality(sessions) >= maxConcurrentSessions
    THEN [threw |-> TRUE, error |-> LimitError]
    ELSE [threw |-> FALSE, sessions |-> sessions \cup {sessionId},
          totalSessions |-> totalSessions + 1]

\* getSession
getSession(sessionId) == IF sessionId \in sessions THEN sessionId ELSE Undefined

\* cleanupSession: a tracked session is disposed and no longer tracked.
cleanupSession(sessionId) ==
    IF getSession(sessionId) # Undefined
    THEN /\ disposed' = disposed \cup {sessionId}
         /\ sessions' = sessions \ {sessionId}
    ELSE UNCHANGED <<sessions, disposed>>

\* handleRequest up to `await session.execute(...)`: createSession is called
\* outside the try block, so its error leaves handleRequest at once.
HandleRequest(r) ==
    /\ requests[r].pc = "idle"
    /\ \E conversation \in Conversations :
           LET created == createSession(generateSessionId(r)) IN
           IF created.threw
           THEN /\ requests' = [requests EXCEPT ![r] =
                       [pc |-> "done", conversation |-> conversation,
                        outcome |-> Thrown(created.error)]]
                /\ UNCHANGED <<sessions, totalSessions>>
           ELSE /\ sessions' = created.sessions
                /\ totalSessions' = created.totalSessions
                /\ requests' = [requests EXCEPT ![r] =
                       [pc |-> "executing", conversation |-> conversation,
                        outcome |-> Undefined]]
    /\ UNCHANGED <<maxConcurrentSessions, disposed, completedSessions,
                   failedSessions, compaction>>

\* Variant of ExecuteRejects without the finally block.
ExecuteRejects_NoCleanup(r) ==
    /\ requests[r].pc = "executing"
    /\ \E error \in ExecuteErrors :
           requests' = [requests EXCEPT ![r].pc = "done",
                                        ![r].outcome = Thrown(error)]
    /\ failedSessions' = failedSessions + 1
    /\ UNCHANGED <<sessions, disposed>>
    /\ UNCHANGED <<maxConcurrentSessions, totalSessions, completedSessions,
                   compaction>>

\* session.execute resolves: count, clean up in the finally block, return.
ExecuteResolves(r) ==
    /\ requests[r].pc = "executing"
    /\ \E value \in Results :
           requests' = [requests EXCEPT ![r].pc = "done",
                                        ![r].outcome = Resolved(value)]
    /\ completedSessions' = completedSessions + 1
    /\ cleanupSession(generateSessionId(r))
    /\ UNCHANGED <<maxConcurrentSessions, totalSessions, failedSessions,
                   compaction>>

\* session.execute rejects: count, clean up in the finally block, rethrow.
ExecuteRejects(r) ==
    /\ requests[r].pc = "executing"
    /\ \E error \in ExecuteErrors :
           requests' = [requests EXCEPT ![r].pc = "done",
                                        ![r].outcome = Thrown(error)]
    /\ failedSessions' = failedSessions + 1
    /\ cleanupSession(generateSessionId(r))
    /\ UNCHANGED <<maxConcurrentSessions, totalSessions, completedSessions,
                   compaction>>

\* SessionManager.dispose: every tracked session is cleaned up.
SessionManagerDispose ==
    /\ disposed' = disposed \cup sessions
    /\ sessions' = {}
    /\ UNCHANGED <<maxConcurrentSessions, totalSessions, completedSessions,
                   failedSessions, requests, compaction>>

NextSessions ==
    \/ \E r \in 1..MaxRequests : HandleRequest(r)
    \/ \E r \in 1..MaxRequests : ExecuteResolves(r)
    \/ \E r \in 1..MaxRequests : ExecuteRejects(r)
    \/ SessionManagerDispose

SpecSessions == InitSessions /\ [][NextSessions]_vars

\* -------------------------------------------------------- one chat session
\* A ChatSession used directly: `disposed` holds it once _disposed is true,
\* requests[r] is the r-th call of execute, the log lists the request
\* handlers created and the errors logged.
TheSession == generateSessionId(1)
DisposedError == "ChatSession has been disposed"

InitChatSession == InitSessions /\ maxConcurrentSessions = DefaultMaxConcurrentSessions

\* ChatSession.canHandle
canHandle(sessionId) == sessionId \notin disposed

\* ChatSession.getStats
getStats(sessionId) ==
    [sessionId |-> sessionId, requestCount |-> 0,
     isActive |-> sessionId \notin disposed]

\* Variant of ChatSessionExecute without the _disposed test.
ChatSessionExecute_Unchecked(r) ==
    /\ requests[r].pc = "idle"
    /\ \E conversation \in Conversations :
           requests' = [requests EXCEPT ![r] =
               [pc |-> "executing", conversation |-> conversation,
                outcome |-> Undefined]]
    /\ log' = Append(log, "createInstance")
    /\ UNCHANGED <<heap, history, toolCallRounds, isContinuation, tokenBudget,
                   pc, propsInfo, cancelled, summary, telemetry, result, start,
                   earlier, built, overlap, serialized>>
    /\ UNCHANGED <<maxConcurrentSessions, sessions, disposed, totalSessions,
                   completedSessions, failedSessions>>

\* ChatSession.execute up to `await handler.getResult()`: a disposed session
\* throws before it creates the handler.
ChatSessionExecute(r) ==
    /\ requests[r].pc = "idle"
    /\ \E conversation \in Conversations :
           IF TheSession \in disposed
           THEN /\ requests' = [requests EXCEPT ![r] =
                       [pc |-> "done", conversation |-> conversation,
                        outcome |-> Thrown(DisposedError)]]
                /\ UNCHANGED log
           ELSE /\ requests' = [requests EXCEPT ![r] =
                       [pc |-> "executing", conversation |-> conversation,
                        outcome |-> Undefined]]
                /\ log' = Append(log, "createInstance")
    /\ UNCHANGED <<heap, history, toolCallRounds, isContinuation, tokenBudget,
                   pc, propsInfo, cancelled, summary, telemetry, result, start,
                   earlier, built, overlap, serialized>>
    /\ UNCHANGED <<maxConcurrentSessions, sessions, disposed, totalSessions,
                   completedSessions, failedSessions>>

\* handler.getResult() resolves: execute returns the result.
GetResultResolves(r) ==
    /\ requests[r].pc = "executing"
    /\ \E value \in Results :
           requests' = [requests EXCEPT ![r].pc = "done",
                                        ![r].outcome = Resolved(value)]
    /\ UNCHANGED <<maxConcurrentSessions, sessions, disposed, totalSessions,
                   completedSessions, failedSessions, compaction>>

\* handler.getResult() rejects: execute logs the error and rethrows it.
GetResultRejects(r) ==
    /\ requests[r].pc = "executing"
    /\ \E error \in ExecuteErrors :
           requests' = [requests EXCEPT ![r].pc = "done",
                                        ![r].outcome = Thrown(error)]
    /\ log' = Append(log, "logger.error")
    /\ UNCHANGED <<heap, history, toolCallRounds, isContinuation, tokenBudget,
                   pc, propsInfo, cancelled, summary, telemetry, result, start,
                   earlier, built, overlap, serialized>>
    /\ UNCHANGED <<maxConcurrentSessions, sessions, disposed, totalSessions,
                   completedSessions, failedSessions>>

\* ChatSession.dispose: sets _disposed; a second call returns at once.
ChatSessionDispose ==
    /\ IF TheSession \in disposed
       THEN UNCHANGED disposed
       ELSE disposed' = disposed \cup {TheSession}
    /\ UNCHANGED <<maxConcurrentSessions, sessions, totalSessions,
                   completedSessions, failedSessions, requests, compaction>>

NextChatSession ==
    \/ \E r \in 1..MaxRequests : ChatSessionExecute(r)
    \/ \E r \in 1..MaxRequests : GetResultResolves(r)
    \/ \E r \in 1..MaxRequests : GetResultRejects(r)
    \/ ChatSessionDispose

SpecChatSession == InitChatSession /\ [][NextChatSession]_vars

\* ------------------------------------------------------- repeated attempts
\* render is called again with the same props after an attempt has ended:
\* summarizeHistory starts afresh on the same prompt context, whose round
\* objects keep whatever the earlier attempts installed.
Rerun ==
    /\ pc = "done"
    /\ pc' = "idle"
    /\ propsInfo' = NoProps
    /\ cancelled' = FALSE
    /\ summary' = NoResponse
    /\ telemetry' = <<>>
    /\ log' = <<>>
    /\ result' = Pending
    /\ earlier' = IF result.kind = "returned" THEN result.summary ELSE Undefined
    /\ UNCHANGED <<heap, history, toolCallRounds, isContinuation, tokenBudget,
                   start, maxConcurrentSessions, sessions, disposed,
                   totalSessions, completedSessions, failedSessions, requests,
                   built, overlap, serialized>>

NextRerun ==
    \/ Next
    \/ Rerun

\* Repeated attempts are explored from the conversations that have not been
\* compacted yet: every summary a later attempt overwrites was installed by
\* an earlier attempt.
InitRerun == Init /\ \A a \in DOMAIN heap : heap[a].summary = Undefined

SpecRerun == InitRerun /\ [][NextRerun]_vars

\* ---------------------------------------------------- rounds with tool calls
ToolCall(name, arguments) == [name |-> name, arguments |-> arguments]

\* Tool-call lists that differ in the name of their last call.
NamedToolCalls ==
    {<<ToolCall(EditFile, "{}")>>,
     <<ToolCall(RunNotebookCell, FilePathArguments("nb1.ipynb"))>>,
     <<ToolCall(EditFile, "{}"),
       ToolCall(RunNotebookCell, FilePathArguments("nb1.ipynb"))>>}

\* Tool-call lists holding a RunNotebookCell call with each kind of
\* arguments, alone, before and after another call, and twice.
NotebookToolCalls ==
    {<<ToolCall(EditFile, "{}")>>} \cup
    {<<ToolCall(RunNotebookCell, arguments)>> : arguments \in Arguments} \cup
    {<<ToolCall(EditFile, "{}"),
       ToolCall(RunNotebookCell, FilePathArguments("nb1.ipynb"))>>,
     <<ToolCall(RunNotebookCell, FilePathArguments("nb2.ipynb")),
       ToolCall(EditFile, "{}")>>,
     <<ToolCall(RunNotebookCell, "{"),
       ToolCall(RunNotebookCell, FilePathArguments("nb2.ipynb"))>>}

\* A conversation with no summary yet in which up to MaxToolRounds rounds made
\* tool calls.
InitToolCalls(turnCounts, lists) ==
    \E counts \in turnCounts :
    \E pending \in 0..MaxPending :
    \E used \in {S \in SUBSET (1..(SumTo(counts, Len(counts)) + pending)) :
                    Cardinality(S) <= MaxToolRounds} :
    \E calls \in [used -> lists] :
        /\ heap = [a \in 1..(SumTo(counts, Len(counts)) + pending) |->
                      [id |-> RoundId(a), summary |-> Undefined,
                       toolCalls |-> IF a \in used THEN calls[a] ELSE <<>>]]
        /\ history = TurnsOf(counts)
        /\ toolCallRounds =
               [k \in 1..pending |-> SumTo(counts, Len(counts)) + k]
        /\ isContinuation = FALSE
        /\ tokenBudget = countTokens("S1")
        /\ pc = "idle"
        /\ propsInfo = NoProps
        /\ cancelled = FALSE
        /\ summary = NoResponse
        /\ telemetry = <<>>
        /\ log = <<>>
        /\ result = Pending
        /\ start = [heap |-> heap, history |-> history,
                    toolCallRounds |-> toolCallRounds,
                    isContinuation |-> isContinuation]
        /\ earlier = Undefined
        /\ built = NotBuilt
        /\ NoOverlap
        /\ NoSessionManager

\* The attempt over conversations whose rounds made tool calls.
InitTools ==
    InitToolCalls(UNION {[1..n -> 1..MaxRounds] : n \in 0..MaxTurns},
                  NamedToolCalls)

SpecTools == InitTools /\ [][Next]_vars

\* getProps alone, over at most one earlier turn of one round.
InitNotebook == InitToolCalls({<<>>, <<1>>}, NotebookToolCalls)

NextNotebook == SummarizeHistory

SpecNotebook == InitNotebook /\ [][NextNotebook]_vars

\* ------------------------------------------------- a growing conversation
\* Between two renders the conversation only grows.  The agent loop appends
\* a round to the in-progress turn.
AppendRound ==
    /\ pc = "done"
    /\ Len(heap) < MaxGrown
    /\ heap' = Append(heap, [id |-> RoundId(Len(heap) + 1),
                             summary |-> Undefined, toolCalls |-> <<>>])
    /\ toolCallRounds' = Append(toolCallRounds, Len(heap) + 1)
    /\ UNCHANGED <<history, isContinuation, tokenBudget, pc, propsInfo,
                   cancelled, summary, telemetry, log, result, start, earlier,
                   maxConcurrentSessions, sessions, disposed, totalSessions,
                   completedSessions, failedSessions, requests, built,
                   overlap, serialized>>

\* The in-progress turn ends: it becomes the newest prior turn with the same
\* round objects, and the next turn has no round yet.
FinishTurn ==
    /\ pc = "done"
    /\ Len(toolCallRounds) >= 1
    /\ history' = Append(history, [rounds |-> toolCallRounds])
    /\ toolCallRounds' = <<>>
    /\ UNCHANGED <<heap, isContinuation, tokenBudget, pc, propsInfo,
                   cancelled, summary, telemetry, log, result, start, earlier,
                   maxConcurrentSessions, sessions, disposed, totalSessions,
                   completedSessions, failedSessions, requests, built,
                   overlap, serialized>>

\* render is called on the conversation as it is now: summarizeHistory starts
\* afresh on the grown prompt context.
RenderAgain ==
    /\ pc = "done"
    /\ pc' = "idle"
    /\ propsInfo' = NoProps
    /\ cancelled' = FALSE
    /\ summary' = NoResponse
    /\ telemetry' = <<>>
    /\ log' = <<>>
    /\ result' = Pending
    /\ earlier' = IF result.kind = "returned" THEN result.summary ELSE Undefined
    /\ start' = [heap |-> heap, history |-> history,
                 toolCallRounds |-> toolCallRounds,
                 isContinuation |-> isContinuation]
    /\ UNCHANGED <<heap, history, toolCallRounds, isContinuation, tokenBudget,
                   maxConcurrentSessions, sessions, disposed,
                   totalSessions, completedSessions, failedSessions, requests,
                   built, overlap, serialized>>

NextGrow ==
    \/ Next
    \/ AppendRound
    \/ FinishTurn
    \/ RenderAgain

\* A conversation that starts empty, with a budget every text fits.
InitGrow ==
    /\ Init
    /\ heap = <<>>
    /\ isContinuation = FALSE
    /\ tokenBudget = countTokens("S1")

SpecGrow == InitGrow /\ [][NextGrow]_vars

\* ================================================================ claims
Range(seq) == {seq[k] : k \in DOMAIN seq}

\* Selection has been made for this attempt.
Selected == pc # "idle" /\ ~propsInfo.threw

\* The rounds of the starting context by position.
PendingCount == Len(start.toolCallRounds)
TurnCount == Len(start.history)

\* The address the selection rules name as the covered round.
CoveredAddress ==
    IF PendingCount >= 2 THEN start.toolCallRounds[PendingCount - 1]
    ELSE Last(start.history[TurnCount].rounds)

\* C1: with two or more pending rounds, getProps yields the pending rounds
\* without the last one, in order, covers the new last pending round and
\* passes the continuation flag through.
C1_SelectionRule1 ==
    (pc # "idle" /\ PendingCount >= 2) =>
        /\ ~propsInfo.threw
        /\ Len(propsInfo.promptContext.toolCallRounds) = PendingCount - 1
        /\ \A k \in 1..(PendingCount - 1) :
               propsInfo.promptContext.toolCallRounds[k] = start.toolCallRounds[k]
        /\ propsInfo.summarizedToolCallRoundId =
               start.heap[start.toolCallRounds[PendingCount - 1]].id
        /\ propsInfo.summarizedToolCallRoundId #
               start.heap[start.toolCallRounds[PendingCount]].id
        /\ propsInfo.promptContext.isContinuation = start.isContinuation

C1_Witness ==
    /\ pc = "rendering"
    /\ PendingCount = 3
    /\ TurnCount = 2
    /\ ~start.isContinuation
    /\ propsInfo.summarizedToolCallRoundId = heap[toolCallRounds[2]].id

\* C2: with at most one pending round and at least one prior turn, getProps
\* sets the continuation flag, empties the pending rounds and covers the
\* last round of the last prior turn.
C2_SelectionRule2 ==
    (pc # "idle" /\ PendingCount <= 1 /\ TurnCount >= 1) =>
        /\ ~propsInfo.threw
        /\ propsInfo.promptContext.isContinuation = TRUE
        /\ propsInfo.promptContext.toolCallRounds = <<>>
        /\ LET rounds == start.history[TurnCount].rounds IN
           propsInfo.summarizedToolCallRoundId = start.heap[rounds[Len(rounds)]].id

C2_Witness ==
    /\ pc = "rendering"
    /\ PendingCount = 1
    /\ TurnCount = 2
    /\ Len(history[1].rounds) = 1
    /\ Len(history[2].rounds) = 2
    /\ ~start.isContinuation
    /\ propsInfo.promptContext.isContinuation
    /\ propsInfo.summarizedToolCallRoundId = heap[history[2].rounds[2]].id

\* C3: with no prior turn and at most one pending round the attempt fails
\* with 'Nothing to summarize' before any render and any call of the
\* completion endpoint, and no round's summary changes.
C3_PreflightFailure ==
    (pc # "idle" /\ TurnCount = 0 /\ PendingCount <= 1) =>
        /\ pc = "done"
        /\ result = Thrown("Nothing to summarize")
        /\ "render" \notin Range(log)
        /\ "request" \notin Range(log)
        /\ \A a \in DOMAIN heap : heap[a].summary = start.heap[a].summary

C3_Witness ==
    /\ pc = "done"
    /\ TurnCount = 0
    /\ PendingCount = 1
    /\ result = Thrown("Nothing to summarize")
    /\ log = <<"select", "throw">>

\* C4: on Success exactly the round the selection named carries the returned
\* text, every other round keeps its summary, and the returned value carries
\* that round's id and that text.
C4_InstallationOnSuccess ==
    (pc = "done" /\ result.kind = "returned") =>
        /\ result.toolCallRoundId = start.heap[CoveredAddress].id
        /\ result.summary = summary.value
        /\ heap[CoveredAddress].summary = summary.value
        /\ \A a \in DOMAIN heap \ {CoveredAddress} :
               heap[a].summary = start.heap[a].summary
        /\ \A a \in DOMAIN heap : heap[a].id = start.heap[a].id

C4_Witness ==
    /\ pc = "done"
    /\ result.kind = "returned"
    /\ PendingCount = 3
    /\ \A a \in DOMAIN heap : start.heap[a].summary = Undefined
    /\ heap[toolCallRounds[1]].summary = Undefined
    /\ heap[toolCallRounds[2]].summary = "S1"
    /\ heap[toolCallRounds[3]].summary = Undefined

\* C5: a Success response is too large exactly when its token count is
\* strictly above the budget; then the attempt raises, nothing is installed
\* and the covered round keeps its summary.
C5_OutputBudget ==
    (pc = "done" /\ summary.type = Success) =>
        /\ (countTokens(summary.value) > tokenBudget) <=>
               (result = Thrown("Summary too large"))
        /\ (countTokens(summary.value) <= tokenBudget) <=>
               (result.kind = "returned")
        /\ (countTokens(summary.value) > tokenBudget) =>
               /\ Last(telemetry).outcome = "too_large"
               /\ "patch" \notin Range(log)
               /\ heap[CoveredAddress].summary = start.heap[CoveredAddress].summary

C5_Witness ==
    /\ pc = "done"
    /\ summary.type = Success
    /\ countTokens(summary.value) > tokenBudget
    /\ result = Thrown("Summary too large")
    /\ heap[CoveredAddress].summary = Undefined

\* C6: after an attempt that ends in any failure, every round's summary and
\* the turns, rounds and their order are what they were before the attempt.
C6_NoPartialState ==
    (pc = "done" /\ result.kind = "thrown") =>
        /\ heap = start.heap
        /\ history = start.history
        /\ toolCallRounds = start.toolCallRounds

C6_Witness ==
    /\ pc = "done"
    /\ result = Thrown("Summary too large")
    /\ PendingCount = 2
    /\ TurnCount = 1
    /\ "count" \in Range(log)
    /\ heap = start.heap

\* The outcome tag that belongs to the way the attempt ended.
OutcomeTag ==
    IF result.kind = "returned" THEN "success"
    ELSE IF result.error = BudgetExceededError THEN "budget_exceeded"
    ELSE IF result.error = "RenderError" THEN "renderError"
    ELSE IF result.error = "Summary too large" THEN "too_large"
    ELSE IF result.error = "Summarization failed"
         THEN (IF summary.type = "failed" THEN "failed" ELSE summary.type)
    ELSE "requestThrow"

\* C7: an attempt that got past selection has sent no event while it runs,
\* can always take a next step until it has ended, and has ended with one
\* outcome and exactly one event, which carries that outcome's tag.
C7_OneOutcomeOneReport ==
    Selected =>
        /\ pc # "done" =>
               /\ result = Pending
               /\ telemetry = <<>>
               /\ ENABLED Next
        /\ pc = "done" =>
               /\ result.kind \in {"returned", "thrown"}
               /\ Len(telemetry) = 1
               /\ telemetry[1].outcome = OutcomeTag
               /\ Cardinality({k \in DOMAIN log : log[k] = "telemetry"}) = 1
               /\ Cardinality({k \in DOMAIN log : log[k] \in {"return", "throw"}}) = 1

C7_Witness ==
    /\ Selected
    /\ pc = "done"
    /\ result.kind = "thrown"
    /\ summary.type = Length
    /\ Len(telemetry) = 1
    /\ telemetry[1].outcome = "length"

\* The position in the log of the first entry equal to `what`, 0 when none.
FirstIndex(what) ==
    LET hits == {k \in DOMAIN log : log[k] = what} IN
    IF hits = {} THEN 0 ELSE CHOOSE k \in hits : \A j \in hits : k <= j

\* C8 as stated: whatever error the attempt raises, 'Nothing to summarize'
\* included, the telemetry event was sent before the error was raised.
C8_TelemetryBeforeEveryError ==
    (pc = "done" /\ result.kind = "thrown") =>
        /\ FirstIndex("telemetry") > 0
        /\ FirstIndex("telemetry") < FirstIndex("throw")

\* C8 amended: every error raised after selection (budget exceeded, render
\* error, request failure, non-success response, too large) is raised after
\* the telemetry event was sent; 'Nothing to summarize' is raised by
\* selection with no event sent.
C8_TelemetryBeforeError ==
    (pc = "done" /\ result.kind = "thrown") =>
        IF result.error = "Nothing to summarize"
        THEN telemetry = <<>> /\ FirstIndex("telemetry") = 0
        ELSE /\ Len(telemetry) = 1
             /\ FirstIndex("telemetry") > 0
             /\ FirstIndex("telemetry") < FirstIndex("throw")

C8_Witness ==
    /\ pc = "done"
    /\ result = Thrown(BudgetExceededError)
    /\ log = <<"select", "render", "telemetry", "throw">>
    /\ telemetry[1].outcome = "budget_exceeded"

\* C9: a budget-exceeded render error is reported as 'budget_exceeded' and
\* any other render error as 'renderError', a throw of the request as
\* 'requestThrow', all three with an empty request id and the original error
\* re-raised; a Failed response is reported as 'failed' and any other
\* non-success response under its own type, with the response's request id
\* and reason, and an error is raised.
C9_FailureClassification ==
    (pc = "done" /\ result.kind = "thrown" /\ Selected) =>
        LET event == Last(telemetry) IN
        /\ result.error = BudgetExceededError =>
               event.outcome = "budget_exceeded" /\ event.requestId = ""
        /\ result.error = "RenderError" =>
               event.outcome = "renderError" /\ event.requestId = ""
        /\ result.error \in {"NetworkError", CancellationError} =>
               event.outcome = "requestThrow" /\ event.requestId = ""
        /\ (summary.type \in ResponseTypes \ {Success}) =>
               /\ result.error = "Summarization failed"
               /\ summary.type = Failed => event.outcome = "failed"
               /\ summary.type # Failed => event.outcome = summary.type
               /\ event.requestId = summary.requestId
               /\ event.detailedOutcome = summary.reason
        /\ event.outcome = "budget_exceeded" => result.error = BudgetExceededError
        /\ event.outcome = "renderError" => result.error = "RenderError"
        /\ event.outcome = "requestThrow" =>
               result.error \in {"NetworkError", CancellationError, ProgressError}
        /\ (result.error \in RenderErrors) => "request" \notin Range(log)

C9_Witness ==
    /\ pc = "done"
    /\ ~cancelled
    /\ summary.type = Length
    /\ result = Thrown("Summarization failed")
    /\ Last(telemetry).outcome = "length"
    /\ Last(telemetry).requestId = RequestId
    /\ Last(telemetry).detailedOutcome = Reason

\* The endpoint signalled the cancellation of an outstanding request, by
\* rejecting with the cancellation or by resolving with type Canceled.
CancellationThrown == result.kind = "thrown" /\ result.error = CancellationError
CancellationReturned == summary.type = Canceled

\* C10 as stated: a cancellation of the outstanding request ends the attempt
\* with one event whose outcome is the request-failure one, whether the
\* endpoint threw or returned a Canceled response.
C10_CancellationIsRequestFailed ==
    (pc = "done" /\ cancelled /\ (CancellationThrown \/ CancellationReturned)) =>
        /\ Len(telemetry) = 1
        /\ telemetry[1].outcome = "requestThrow"

\* C10 amended: a cancellation of the outstanding request ends the attempt
\* with one outcome and one event; when the endpoint throws, the outcome is
\* 'requestThrow' and the cancellation is re-raised; when it returns a
\* response of type Canceled, the outcome is that type, 'canceled', with the
\* response's request id and reason, and 'Summarization failed' is raised.
C10_Cancellation ==
    (pc = "done" /\ cancelled /\ (CancellationThrown \/ CancellationReturned)) =>
        /\ Len(telemetry) = 1
        /\ result.kind = "thrown"
        /\ CancellationThrown =>
               /\ telemetry[1].outcome = "requestThrow"
               /\ telemetry[1].requestId = ""
               /\ summary = NoResponse
        /\ CancellationReturned =>
               /\ telemetry[1].outcome = "canceled"
               /\ telemetry[1].requestId = summary.requestId
               /\ telemetry[1].detailedOutcome = summary.reason
               /\ result.error = "Summarization failed"
        /\ heap = start.heap

C10_Witness ==
    /\ pc = "done"
    /\ cancelled
    /\ CancellationReturned
    /\ telemetry[1].outcome = "canceled"
    /\ result = Thrown("Summarization failed")

\* Addresses are handed out oldest round first, so a round is chronologically
\* after another exactly when its address is greater.
\* The turn holding address a: Len(history) + 1 for a pending round.
TurnOfAddress(a) ==
    IF \E i \in DOMAIN history : a \in Range(history[i].rounds)
    THEN CHOOSE i \in DOMAIN history : a \in Range(history[i].rounds)
    ELSE Len(history) + 1

\* What a build of the caller's prompt context emits in the current state.
Built == ConversationHistoryRender(heap, PromptContext)
BuiltSummaries == {k \in DOMAIN Built : Built[k].kind = "summary"}
BuiltRounds ==
    UNION {Range(Built[k].rounds) : k \in {j \in DOMAIN Built : Built[j].kind = "toolCalls"}}
BuiltUserTurns == {Built[k].turn : k \in {j \in DOMAIN Built : Built[j].kind = "user"}}

\* C11: after a summary has been installed on round R, a build emits no round
\* at or before R and no user message of R's turn or an earlier turn; it
\* emits R's summary text and, verbatim, exactly the rounds after R.
C11_RoundTrip ==
    (pc = "done" /\ result.kind = "returned") =>
        /\ \A a \in BuiltRounds : a > CoveredAddress
        /\ \A t \in BuiltUserTurns : t > TurnOfAddress(CoveredAddress)
        /\ Cardinality(BuiltSummaries) = 1
        /\ \A k \in BuiltSummaries : Built[k].text = result.summary
        /\ BuiltRounds = {a \in DOMAIN heap : a > CoveredAddress}

\* C11 for texts other than '' (not a claim: locates the failure of C11).
C11_RoundTripNonEmpty ==
    (pc = "done" /\ result.kind = "returned" /\ result.summary # "") =>
        /\ \A a \in BuiltRounds : a > CoveredAddress
        /\ \A t \in BuiltUserTurns : t > TurnOfAddress(CoveredAddress)
        /\ Cardinality(BuiltSummaries) = 1
        /\ \A k \in BuiltSummaries : Built[k].text = result.summary
        /\ BuiltRounds = {a \in DOMAIN heap : a > CoveredAddress}

\* C12: installing the text an attempt installed once more on the same round
\* id changes nothing, and however often the attempt is re-run for the same
\* selection only the one covered round is ever written, by overwrite: after
\* a return it holds exactly the returned text; the turns, the rounds, their
\* order, their ids and every other round's summary stay as they started.
C12_Idempotence ==
    /\ history = start.history
    /\ toolCallRounds = start.toolCallRounds
    /\ DOMAIN heap = DOMAIN start.heap
    /\ \A a \in DOMAIN heap :
           \/ heap[a] = start.heap[a]
           \/ /\ PendingCount >= 2 \/ TurnCount >= 1
              /\ a = CoveredAddress
              /\ heap[a].id = start.heap[a].id
              /\ heap[a].toolCalls = start.heap[a].toolCalls
    /\ (pc = "done" /\ result.kind = "returned") =>
           /\ heap = [start.heap EXCEPT ![CoveredAddress].summary = result.summary]
           /\ addSummaryToHistory(heap, result.summary, result.toolCallRoundId) = heap

\* A second attempt has returned the text the attempt before it installed.
C12_Witness ==
    /\ pc = "done"
    /\ result.kind = "returned"
    /\ result.summary = "S1"
    /\ earlier = "S1"
    /\ start.heap[CoveredAddress].summary = Undefined
    /\ heap[CoveredAddress].summary = "S1"

\* The addresses whose round has the id, among a list of addresses.
Matching(rounds, id) == {k \in DOMAIN rounds : start.heap[rounds[k]].id = id}
MatchingTurns(id) ==
    {i \in DOMAIN history : Matching(history[i].rounds, id) # {}}
Written == {a \in DOMAIN heap : heap[a] # start.heap[a]}

\* C13: a call of addSummaryToHistory writes the text on the first pending
\* round with the id; if no pending round has it, on a round with the id in
\* the most recent prior turn that has one; if no round has it, on nothing.
\* It writes at most one round, only that round's summary, and returns.
C13_PatchLookupOrder ==
    (pc = "done") =>
        LET id == result.toolCallRoundId
            pending == Matching(toolCallRounds, id)
            turns == MatchingTurns(id) IN
        /\ result.kind = "returned"
        /\ Cardinality(Written) <= 1
        /\ \A a \in Written :
               heap[a] = [start.heap[a] EXCEPT !.summary = result.summary]
        /\ IF pending # {}
           THEN heap[toolCallRounds[CHOOSE k \in pending :
                                        \A j \in pending : k <= j]].summary
                    = result.summary
           ELSE IF turns # {}
           THEN LET t == CHOOSE i \in turns : \A j \in turns : j <= i IN
                \E k \in Matching(history[t].rounds, id) :
                    heap[history[t].rounds[k]].summary = result.summary
           ELSE heap = start.heap

\* The id is on a round of two prior turns and on no pending round: the round
\* of the newer turn was written, the one of the older turn was not.
C13_Witness ==
    /\ pc = "done"
    /\ result.toolCallRoundId = "dup"
    /\ result.summary = "S1"
    /\ Len(toolCallRounds) > 0
    /\ Matching(toolCallRounds, "dup") = {}
    /\ Cardinality(MatchingTurns("dup")) = 2
    /\ heap[Last(history[2].rounds)].summary = "S1"
    /\ \A a \in Range(history[1].rounds) : heap[a].summary = Undefined

\* The steps of the attempt, in the order they happened.
IsStep(what) == what \in {"select", "render", "request", "count", "patch"}
Steps == SelectSeq(log, IsStep)
StepOrder == <<"select", "render", "request", "count", "patch">>
Happened(what) == FirstIndex(what) > 0

\* C14: the steps of an attempt happen in the order select, render, request,
\* count, patch, each at most once and none without the ones before it; no
\* request is made when selection or rendering failed, no tokens are counted
\* for a response that is not a success, and nothing is patched unless the
\* counted text was within the budget.
C14_StepOrdering ==
    /\ Len(Steps) <= Len(StepOrder)
    /\ Steps = SubSeq(StepOrder, 1, Len(Steps))
    /\ (pc = "done" /\ result.kind = "thrown"
            /\ result.error = "Nothing to summarize") =>
           ~Happened("render") /\ ~Happened("request")
    /\ (pc = "done" /\ result.kind = "thrown" /\ result.error \in RenderErrors) =>
           ~Happened("request")
    /\ (summary.type \in ResponseTypes \ {Success}) => ~Happened("count")
    /\ Happened("count") => summary.type = Success
    /\ Happened("patch") =>
           /\ summary.type = Success
           /\ ~TooLarge(summary.value, tokenBudget)
           /\ FirstIndex("count") < FirstIndex("patch")

\* An attempt got a response that is not a success: it stopped after the
\* request, without counting tokens.
C14_Witness ==
    /\ pc = "done"
    /\ summary.type = Length
    /\ Steps = <<"select", "render", "request">>
    /\ result = Thrown("Summarization failed")

\* The requests handleRequest is executing.
Executing == {r \in 1..MaxRequests : requests[r].pc = "executing"}

\* C15: while a request of a conversation is executing, handleRequest does not
\* start executing another request of the same conversation.
C15_OneRequestPerConversation ==
    \A r1, r2 \in Executing :
        requests[r1].conversation = requests[r2].conversation => r1 = r2

\* C16: the number of tracked sessions never exceeds maxConcurrentSessions,
\* and a handleRequest that arrives when it equals the limit ends at once
\* with the limit error: no session tracked, counted, disposed or executed;
\* one that arrives below the limit tracks and counts its session.
C16_ConcurrentSessionLimit ==
    /\ [](Cardinality(sessions) <= maxConcurrentSessions)
    /\ [][\A r \in 1..MaxRequests :
              (requests[r].pc = "idle" /\ requests'[r].pc # "idle") =>
                  IF Cardinality(sessions) = maxConcurrentSessions
                  THEN /\ requests'[r].pc = "done"
                       /\ requests'[r].outcome = Thrown(LimitError)
                       /\ sessions' = sessions
                       /\ disposed' = disposed
                       /\ totalSessions' = totalSessions
                       /\ completedSessions' = completedSessions
                       /\ failedSessions' = failedSessions
                  ELSE /\ requests'[r].pc = "executing"
                       /\ sessions' = sessions \cup {generateSessionId(r)}
                       /\ totalSessions' = totalSessions + 1]_vars

\* As many sessions as the largest limit passed allows are tracked and
\* executing, and one more request has been refused.
C16_Witness ==
    /\ maxConcurrentSessions = MaxLimit
    /\ Cardinality(sessions) = MaxLimit
    /\ Cardinality(Executing) = MaxLimit
    /\ totalSessions = MaxLimit
    /\ \E r \in 1..MaxRequests :
           /\ requests[r].pc = "done"
           /\ requests[r].outcome = Thrown(LimitError)
           /\ getSession(generateSessionId(r)) = Undefined

\* The requests whose execute has settled, and what the caller got.
Settled ==
    {r \in 1..MaxRequests :
        requests[r].pc = "done" /\ requests[r].outcome # Thrown(LimitError)}

\* C17: once the execute of a request has settled, resolved or rejected, its
\* session is disposed and no longer tracked and the caller has the value or
\* the error execute settled with; only sessions of executing requests are
\* tracked, so with no request in flight no session is tracked and getSession
\* finds none.
C17_SessionCleanup ==
    /\ \A r \in Settled :
           /\ getSession(generateSessionId(r)) = Undefined
           /\ generateSessionId(r) \in disposed
           /\ \/ \E value \in Results : requests[r].outcome = Resolved(value)
              \/ \E error \in ExecuteErrors : requests[r].outcome = Thrown(error)
    /\ sessions \subseteq {generateSessionId(r) : r \in Executing}
    /\ Executing = {} =>
           /\ sessions = {}
           /\ \A r \in 1..MaxRequests : getSession(generateSessionId(r)) = Undefined

\* One request was rejected and its session cleaned up while another request
\* is still executing in its tracked session.
C17_Witness ==
    /\ \E r \in Settled :
           /\ requests[r].outcome = Thrown("HandlerError")
           /\ generateSessionId(r) \in disposed
           /\ generateSessionId(r) \notin sessions
    /\ \E r \in Executing : getSession(generateSessionId(r)) # Undefined

\* The rounds that carry a summary, and the chronologically latest of a
\* non-empty set of rounds.
Carrying == {a \in DOMAIN heap : heap[a].summary # Undefined}
Latest(S) == CHOOSE a \in S : \A b \in S : b <= a

\* What C18 asks of a build when the rounds in S are the ones carrying a
\* summary: no summary emitted if there is none, else exactly one, the one of
\* the latest of them, and no round or user message at or before it.
SingleLiveSummary(S) ==
    IF S = {} THEN BuiltSummaries = {}
    ELSE /\ Cardinality(BuiltSummaries) = 1
         /\ \A k \in BuiltSummaries :
                /\ Built[k].text = heap[Latest(S)].summary
                /\ Built[k].turn = TurnOfAddress(Latest(S))
         /\ \A a \in BuiltRounds : a > Latest(S)
         /\ \A t \in BuiltUserTurns : t > TurnOfAddress(Latest(S))

\* C18: a build emits at most one summary text, the summary of the
\* chronologically latest round that carries one, and nothing older than
\* that round.
C18_SingleLiveSummary ==
    /\ Cardinality(BuiltSummaries) <= 1
    /\ SingleLiveSummary(Carrying)

\* C18 when only rounds with a non-empty summary text count as carrying one
\* (not a claim: locates the failure of C18).
C18_SingleLiveSummaryNonEmpty ==
    /\ Cardinality(BuiltSummaries) <= 1
    /\ SingleLiveSummary({a \in DOMAIN heap : Truthy(heap[a].summary)})

\* C19: the elements of a build are in chronological order: an emitted
\* summary is the first element, turns go from oldest to newest with the
\* in-progress turn last, within a turn the user message or the summary
\* standing for it precedes the rounds, and the rounds of a turn keep their
\* order.
C19_ChronologicalEmission ==
    built.done =>
    /\ \A k \in DOMAIN built.elements : built.elements[k].kind = "summary" => k = 1
    /\ \A j, k \in DOMAIN built.elements :
           j < k =>
               /\ built.elements[j].turn <= built.elements[k].turn
               /\ built.elements[j].turn = built.elements[k].turn =>
                      /\ built.elements[j].kind \in {"user", "summary"}
                      /\ built.elements[k].kind = "toolCalls"
    /\ \A k \in DOMAIN built.elements :
           /\ built.elements[k].kind = "toolCalls" =>
                  /\ built.elements[k].rounds =
                         SelectSeq(IF built.elements[k].turn <= Len(history)
                                   THEN history[built.elements[k].turn].rounds
                                   ELSE toolCallRounds,
                                   LAMBDA a : a \in Range(built.elements[k].rounds))
                  /\ \A i, j \in DOMAIN built.elements[k].rounds :
                         i < j => built.elements[k].rounds[i] < built.elements[k].rounds[j]
           /\ built.elements[k].turn = Len(history) + 1 => k >= Len(built.elements) - 1

\* A build with the summary of an older turn first, then a whole newer turn
\* with two rounds, then the in-progress turn: user message, pending rounds.
C19_Witness ==
    /\ built.done
    /\ Len(built.elements) = 6
    /\ built.elements[1].kind = "summary"
    /\ built.elements[2].kind = "toolCalls"
    /\ built.elements[3].kind = "user"
    /\ built.elements[4].kind = "toolCalls" /\ Len(built.elements[4].rounds) = 2
    /\ built.elements[5].kind = "user" /\ built.elements[5].turn = Len(history) + 1
    /\ built.elements[6].kind = "toolCalls" /\ Len(built.elements[6].rounds) >= 2

\* The rounds carrying a summary when the attempt started (the telemetry
\* event is computed before anything is installed), and the prior turns
\* holding one of them.
CarryingAtStart == {a \in DOMAIN start.heap : start.heap[a].summary # Undefined}
SummarizedTurns ==
    {i \in DOMAIN history : Range(history[i].rounds) \cap CarryingAtStart # {}}
NewerThanLatestSummary ==
    Cardinality({a \in DOMAIN start.heap : a > Latest(CarryingAtStart)})

\* C20: when at least one round carries a summary, every telemetry event
\* reports as numRoundsSinceLastSummarization the number of rounds newer than
\* the newest round carrying one.
C20_RoundsSinceLastSummarization ==
    \A k \in DOMAIN telemetry :
        CarryingAtStart # {} =>
            telemetry[k].numRoundsSinceLastSummarization = NewerThanLatestSummary

\* C20 for contexts where a pending round carries a summary or at most one
\* prior turn holds summarized rounds (not a claim: locates the failure of
\* C20).
C20_RoundsSinceOneSummarizedTurn ==
    \A k \in DOMAIN telemetry :
        (/\ CarryingAtStart # {}
         /\ \/ Range(toolCallRounds) \cap CarryingAtStart # {}
            \/ Cardinality(SummarizedTurns) <= 1) =>
            telemetry[k].numRoundsSinceLastSummarization = NewerThanLatestSummary

\* The errors an attempt raises of its own.
AttemptErrors ==
    RenderErrors \cup {"NetworkError", CancellationError, ProgressError,
                       "Nothing to summarize", "Summarization failed",
                       "Summary too large"}

\* C21: whether or not the telemetry sink raises, a failed attempt raises its
\* own error, and an attempt whose response is a success within the budget
\* installs the summary on the covered round and returns it.
C21_TelemetryCannotAlterOutcome ==
    (pc = "done") =>
        /\ result.kind = "thrown" => result.error \in AttemptErrors
        /\ (summary.type = Success /\ ~TooLarge(summary.value, tokenBudget)) =>
               /\ result = Returned(start.heap[CoveredAddress].id, summary.value)
               /\ heap[CoveredAddress].summary = summary.value

\* C22: whatever the progress reporter does, once the completion request has
\* been made the attempt ends as the request and the token check decide: with
\* the error the request rejected with, with 'Summarization failed' for a
\* response that is not a success, with 'Summary too large' for a text over
\* the budget, and otherwise with the summary installed and returned.
C22_ProgressCannotAlterOutcome ==
    (pc = "done" /\ Happened("request")) =>
        \/ /\ summary = NoResponse
           /\ result.kind = "thrown"
           /\ result.error \in {"NetworkError", CancellationError}
        \/ /\ summary.type \in ResponseTypes \ {Success}
           /\ result = Thrown("Summarization failed")
        \/ /\ summary.type = Success
           /\ TooLarge(summary.value, tokenBudget)
           /\ result = Thrown("Summary too large")
        \/ /\ summary.type = Success
           /\ ~TooLarge(summary.value, tokenBudget)
           /\ result = Returned(start.heap[CoveredAddress].id, summary.value)
           /\ heap[CoveredAddress].summary = summary.value

\* The second attempt is between its selection and its end.
OverlapInFlight == overlap.pc \in {"requesting", "counting"}

\* C23: both attempts select the same covered round and write no other; the
\* round ends up with the text of the attempt that patched last, so when both
\* succeed the earlier patch is lost.  Under a serializing caller the heap
\* does not change between an attempt's selection and its own patch.
C23_LostUpdate ==
    /\ (Selected /\ overlap.summarizedToolCallRoundId # Undefined) =>
           overlap.summarizedToolCallRoundId = propsInfo.summarizedToolCallRoundId
    /\ \A a \in DOMAIN heap :
           heap[a] # start.heap[a] => a = CoveredAddress
    /\ IF Happened("patch") /\ Happened("patch2")
       THEN heap[CoveredAddress].summary =
                IF FirstIndex("patch") < FirstIndex("patch2")
                THEN overlap.result.summary ELSE result.summary
       ELSE IF Happened("patch")
       THEN heap[CoveredAddress].summary = result.summary
       ELSE IF Happened("patch2")
       THEN heap[CoveredAddress].summary = overlap.result.summary
       ELSE heap = start.heap
    /\ serialized =>
           /\ pc \notin {"idle", "done"} => heap = start.heap /\ overlap.pc = "idle"
           /\ OverlapInFlight =>
                  /\ pc = "done"
                  /\ heap = IF Happened("patch")
                            THEN [start.heap EXCEPT
                                     ![CoveredAddress].summary = result.summary]
                            ELSE start.heap

\* The two attempts overlapped and both returned: the second installed "S2"
\* while the first was in flight, then the first overwrote it with "S1".
C23_Witness ==
    /\ ~serialized
    /\ pc = "done" /\ result.kind = "returned" /\ result.summary = "S1"
    /\ overlap.pc = "done" /\ overlap.result.kind = "returned"
    /\ overlap.result.summary = "S2"
    /\ FirstIndex("select2") < FirstIndex("patch2")
    /\ FirstIndex("patch2") < FirstIndex("patch")
    /\ heap[CoveredAddress].summary = "S1"

\* The name of the last call of the newest round of the list that made a
\* call, or undefined.
MostRecentTool(rounds) ==
    LET made == {k \in DOMAIN rounds : Len(heap[rounds[k]].toolCalls) > 0} IN
    IF made = {} THEN Undefined
    ELSE Last(heap[rounds[CHOOSE k \in made : \A j \in made : j <= k]].toolCalls).name

\* The most recent tool invocation: of the pending rounds, else of the last
\* turn of the history, else 'none'.
MostRecentInvocation ==
    IF MostRecentTool(toolCallRounds) # Undefined
    THEN MostRecentTool(toolCallRounds)
    ELSE IF Len(history) > 0 /\ MostRecentTool(Last(history).rounds) # Undefined
    THEN MostRecentTool(Last(history).rounds)
    ELSE "none"

\* C24: every telemetry event reports as lastUsedTool the most recent tool
\* invocation of the pending rounds, searched newest first, else of the most
\* recent turn of the history; it reports 'none' only when neither holds one.
C24_LastUsedTool ==
    \A k \in DOMAIN telemetry :
        telemetry[k].lastUsedTool = MostRecentInvocation

\* C24, when the newest pending round, or with no pending round the newest
\* round of the last turn, made a call.
C24_LastUsedToolOfNewestRound ==
    \A k \in DOMAIN telemetry :
        (\/ /\ Len(toolCallRounds) > 0
            /\ Len(heap[Last(toolCallRounds)].toolCalls) > 0
         \/ /\ Len(toolCallRounds) = 0 /\ Len(history) > 0
            /\ Len(heap[Last(Last(history).rounds)].toolCalls) > 0
         \/ MostRecentInvocation = "none") =>
            telemetry[k].lastUsedTool = MostRecentInvocation


\* The RunNotebookCell call the enrichment reads, when there is one.
ScannedRound == NotebookRound(toolCallRounds)
ScannedArguments == NotebookCall(ScannedRound).arguments

\* The causes for which the enrichment finds no notebook: no RunNotebookCell
\* call, arguments missing, malformed or null, a filePath that is no string,
\* a path that resolves to nothing, a resolution that raises, no open document.
FailureCauses ==
    {Undefined, "{", "null", "{\"filePath\":1}", FilePathArguments("nowhere"),
     FilePathArguments("bad"), FilePathArguments("closed.ipynb")}
EnrichmentFails ==
    ScannedRound = NoRound \/ ScannedArguments \in FailureCauses

\* C25: getProps raises only 'Nothing to summarize'; whatever the enrichment
\* meets, the selection holds the rounds and the covered-round id the two
\* selection rules give, and under every failure cause it has no attachment.
C25_BestEffortNotebook ==
    pc # "idle" =>
        /\ propsInfo.threw <=> (Len(toolCallRounds) <= 1 /\ Len(history) = 0)
        /\ propsInfo.threw => result = Thrown("Nothing to summarize")
        /\ ~propsInfo.threw =>
               /\ propsInfo.promptContext.history = history
               /\ IF Len(toolCallRounds) > 1
                  THEN /\ propsInfo.promptContext.toolCallRounds =
                              SubSeq(toolCallRounds, 1, Len(toolCallRounds) - 1)
                       /\ propsInfo.promptContext.isContinuation = isContinuation
                       /\ propsInfo.summarizedToolCallRoundId =
                              heap[toolCallRounds[Len(toolCallRounds) - 1]].id
                  ELSE /\ propsInfo.promptContext.toolCallRounds = <<>>
                       /\ propsInfo.promptContext.isContinuation = TRUE
                       /\ propsInfo.summarizedToolCallRoundId =
                              heap[Last(Last(history).rounds)].id
               /\ EnrichmentFails => propsInfo.workingNotebook = Undefined

\* getProps returned a selection of two rounds with no attachment although the
\* newest RunNotebookCell call names a path whose resolution raises.
C25_Witness ==
    /\ pc = "rendering"
    /\ Len(toolCallRounds) = 3
    /\ ScannedRound # NoRound
    /\ ScannedArguments = FilePathArguments("bad")
    /\ Len(propsInfo.promptContext.toolCallRounds) = 2
    /\ propsInfo.workingNotebook = Undefined


\* The rounds of the selection getProps returned: those of its history and
\* its pending rounds.
SelectedRounds ==
    UNION {Range(propsInfo.promptContext.history[i].rounds) :
               i \in DOMAIN propsInfo.promptContext.history}
        \cup Range(propsInfo.promptContext.toolCallRounds)

\* C26: when the selection carries a working notebook, the round it was taken
\* from is a selected round, the most recent one holding a RunNotebookCell
\* call; a round the selection excludes is never the source.
C26_NotebookScanScope ==
    (pc # "idle" /\ ~propsInfo.threw /\ propsInfo.workingNotebook # Undefined) =>
        /\ ScannedRound \in SelectedRounds
        /\ \A a \in SelectedRounds : HasNotebookCall(a) => a <= ScannedRound

\* C26 as the code has it: the source is the newest of the caller's pending
\* rounds holding a RunNotebookCell call, the dropped last round included.
C26_ScansPendingRounds ==
    (pc # "idle" /\ ~propsInfo.threw /\ propsInfo.workingNotebook # Undefined) =>
        /\ ScannedRound \in Range(toolCallRounds)
        /\ \A a \in Range(toolCallRounds) : HasNotebookCall(a) => a <= ScannedRound
        /\ propsInfo.workingNotebook =
               resolveFilePath(JSONParse(ScannedArguments).filePath).uri


\* The calls of execute on the one session that created a request handler.
HandlersCreated == Cardinality({k \in DOMAIN log : log[k] = "createInstance"})

\* C27: before dispose canHandle is true; once disposed the session stays
\* disposed, canHandle is false and getStats reports isActive false; every
\* execute that starts on a disposed session ends at once with 'ChatSession
\* has been disposed' and creates no request handler, one that starts before
\* creates one; a dispose of a disposed session changes nothing.
C27_DisposedIsAbsorbing ==
    /\ [](/\ canHandle(TheSession) <=> TheSession \notin disposed
          /\ getStats(TheSession).isActive <=> TheSession \notin disposed
          /\ \A r \in 1..MaxRequests :
                 (requests[r].pc = "done"
                      /\ requests[r].outcome = Thrown(DisposedError)) =>
                     ~canHandle(TheSession))
    /\ [][/\ TheSession \in disposed => TheSession \in disposed'
          /\ ChatSessionDispose =>
                 /\ ~canHandle(TheSession)'
                 /\ ~getStats(TheSession).isActive'
                 /\ TheSession \in disposed => UNCHANGED vars
          /\ \A r \in 1..MaxRequests :
                 (requests[r].pc = "idle" /\ requests'[r].pc # "idle") =>
                     IF TheSession \in disposed
                     THEN /\ requests'[r].pc = "done"
                          /\ requests'[r].outcome = Thrown(DisposedError)
                          /\ HandlersCreated' = HandlersCreated
                     ELSE /\ requests'[r].pc = "executing"
                          /\ HandlersCreated' = HandlersCreated + 1]_vars

\* One execute started before dispose and resolved after it; a later execute
\* was rejected with the disposed error and created no handler.
C27_Witness ==
    /\ TheSession \in disposed
    /\ ~canHandle(TheSession)
    /\ requests[1].pc = "done" /\ requests[1].outcome = Resolved("result-1")
    /\ requests[2].pc = "done" /\ requests[2].outcome = Thrown(DisposedError)
    /\ HandlersCreated = 1


\* C28: the caller's prompt context is what it was before the attempt: the
\* same history, the same pending rounds with the last one, the same
\* continuation flag, and until the patch the same round summaries; the
\* shortened pending list and the continuation flag of rule 2 are in the
\* returned selection only, so after a rule-2 compaction a build of the
\* caller's context emits the newest user message and the one pending round.
C28_SelectionLeavesCallerContext ==
    /\ history = start.history
    /\ toolCallRounds = start.toolCallRounds
    /\ isContinuation = start.isContinuation
    /\ ~Happened("patch") => heap = start.heap
    /\ (Selected /\ PendingCount >= 2) =>
           /\ Len(propsInfo.promptContext.toolCallRounds) = Len(toolCallRounds) - 1
           /\ Last(toolCallRounds) \notin Range(propsInfo.promptContext.toolCallRounds)
    /\ (Selected /\ PendingCount <= 1) =>
           /\ propsInfo.promptContext.toolCallRounds = <<>>
           /\ propsInfo.promptContext.isContinuation
    /\ (pc = "done" /\ result.kind = "returned" /\ PendingCount <= 1) =>
           /\ ~isContinuation =>
                  \E k \in DOMAIN Built : Built[k] = AgentUserMessage(TurnCount + 1)
           /\ PendingCount = 1 =>
                  \E k \in DOMAIN Built :
                      Built[k] = ChatToolCalls(TurnCount + 1, toolCallRounds)

\* A rule-2 compaction has returned: the selection had no pending round and
\* the continuation flag set, the caller still has its one pending round and
\* its flag unset.
C28_Witness ==
    /\ pc = "done" /\ result.kind = "returned"
    /\ Len(toolCallRounds) = 1
    /\ ~isContinuation
    /\ propsInfo.promptContext.toolCallRounds = <<>>
    /\ propsInfo.promptContext.isContinuation
    /\ heap[CoveredAddress].summary = "S1"


\* What C29 asks after an attempt has returned: a build of the caller's
\* context stops at the covered round, emitting the returned text as its
\* summary and neither that round nor anything older verbatim, and telemetry
\* counts as it does when the covered round holds a non-empty summary.
RecognisedAsSummarized ==
    /\ \E k \in BuiltSummaries :
           /\ Built[k].text = result.summary
           /\ Built[k].turn = TurnOfAddress(CoveredAddress)
    /\ \A a \in BuiltRounds : a > CoveredAddress
    /\ \A t \in BuiltUserTurns : t > TurnOfAddress(CoveredAddress)
    /\ numRoundsSinceLastSummarization(heap) =
           numRoundsSinceLastSummarization(
               [heap EXCEPT ![CoveredAddress].summary = "S1"])

\* C29: after every attempt that ended in Success, whatever text within the
\* budget the endpoint returned, the empty text included, the next build and
\* the next telemetry computation recognise the covered round as summarized.
C29_SuccessImpliesSummarized ==
    (pc = "done" /\ result.kind = "returned") => RecognisedAsSummarized

\* C29 for texts other than ''.
C29_NonEmptySuccessImpliesSummarized ==
    (pc = "done" /\ result.kind = "returned" /\ result.summary # "") =>
        RecognisedAsSummarized


\* SessionManager.getStats
SessionManagerStats ==
    [totalSessions |-> totalSessions,
     activeSessions |-> Cardinality(sessions),
     completedSessions |-> completedSessions,
     failedSessions |-> failedSessions]

\* C30: in every state between asynchronous steps, whatever the interleaving
\* of handleRequest calls that resolve, reject or are refused and of
\* SessionManager.dispose calls, getStats has
\* totalSessions = completedSessions + failedSessions + activeSessions.
C30_CounterConservation ==
    SessionManagerStats.totalSessions =
        SessionManagerStats.completedSessions
            + SessionManagerStats.failedSessions
            + SessionManagerStats.activeSessions

\* C30 with the requests in flight in place of the tracked sessions: every
\* session counted is completed, failed or still executing.
C30_CounterConservationInFlight ==
    totalSessions = completedSessions + failedSessions + Cardinality(Executing)


\* C31: in a conversation that only grows, the round a returning attempt
\* covers is chronologically at or after every round an earlier attempt
\* covered (the rounds carrying a summary, none carrying one at the start),
\* it holds the returned text afterwards, and no step removes a round or
\* resets a summary that is set to unset.
C31_CoveredRoundMovesForward ==
    [][/\ \A a \in DOMAIN heap :
              /\ a \in DOMAIN heap'
              /\ heap'[a].id = heap[a].id
              /\ heap[a].summary # Undefined => heap'[a].summary # Undefined
       /\ (pc # "done" /\ pc' = "done" /\ result'.kind = "returned") =>
              /\ \A b \in Carrying : b <= CoveredAddress
              /\ result'.toolCallRoundId = heap[CoveredAddress].id
              /\ heap'[CoveredAddress].summary = result'.summary
              /\ \A a \in DOMAIN heap :
                     a # CoveredAddress => heap'[a] = heap[a]]_vars

\* Three attempts have returned in a conversation that grew in between: the
\* last one covered, by rule 2, the newest of three rounds carrying a summary.
C31_Witness ==
    /\ pc = "done" /\ result.kind = "returned"
    /\ Cardinality(Carrying) = 3
    /\ CoveredAddress = Latest(Carrying)
    /\ Len(start.toolCallRounds) <= 1
    /\ Len(history) >= 2

====
